---- MODULE Spec2Model ----
(***************************************************************************)
(* A state-machine model of the bid crawler: the fetch-all driver of       *)
(* BaseParser, the CrawlerEngine registry and dispatch, the run of main(), *)
(* and the DataFilter pipeline over BidInfo records.                       *)
(*                                                                         *)
(* Conventions.  A Python str is a sequence of one-character strings.  An  *)
(* Optional value is a sequence of length at most one: <<>> is None and    *)
(* <<v>> is the value v.  An optional text (purchaser) is its sequence of  *)
(* characters, <<>> standing for both None and '' (the code only ever      *)
(* tests such a field for truthiness).  A datetime is a number of ticks,   *)
(* TicksPerDay of them to the calendar day.                                *)
(***************************************************************************)
EXTENDS Integers, Sequences, FiniteSets, TLC

VARIABLES
    config,      \* ConfigManager.config: websites, tech_keywords, crawler, filters, industries
    args,        \* the command line of main(): max_pages (Optional)
    now,         \* datetime.now(), in ticks
    served,      \* the list pages the crawled sites can answer with in this run
    pc,          \* position of main(), or "api" when a client drives the components
    exitCode,    \* Optional: the value main() returned
    session,     \* HttpClient.session: "none", "open" or "closed"
    closeCount,  \* how often HttpClient.close() ran on the session
    parsers,     \* CrawlerEngine.parsers: per parser key, Optional: the website config
                 \* its parser was built from
    regLog,      \* what _register_parsers logged, per enabled website
    siteIdx,     \* crawl_all: index of the website being crawled
    allItems,    \* crawl_all: all_items
    page,        \* fetch_all: the loop variable
    maxPages,    \* fetch_all: max_pages of the running call
    curParser,   \* crawl_website: Optional, the website config the resolved parser was built from
    pageItems,   \* fetch_all: all_items of the running call
    fetchLog,    \* every fetch_list call: [site, source, page, outcome, parsed, fetched,
                 \* items]
    siteLog,     \* every crawl_website call that ended: [site, outcome, items]
    seen,        \* DataFilter._seen_hashes
    items,       \* the list handed to filter(); its records are mutated in place
    stats,       \* the stats dict of the last filter() call that ran its loop
    result,      \* what the last filter() call returned, as positions of items
    calls,       \* per candidate of that call, the helper methods called on it, in order
    callLog,     \* every filter() call that returned: [input, result, records, before,
                 \* after, epoch]
    epoch,       \* number of reset() calls so far
    statsOut,    \* Optional: what the last get_statistics() returned
    seenOther,   \* _seen_hashes of a second DataFilter the client has constructed
    otherLog,    \* every filter() call on that second instance: [input, result, before, after]
    rec,         \* Optional: a BidInfo a client holds and calls methods on
    trace,       \* the calls that client made: [op, arg, on, ret]
    clock,       \* time.time(), in ticks
    delay,       \* HttpClient.delay, in ticks
    retryTimes,  \* HttpClient.retry_times
    lastRequestTime, \* HttpClient._last_request_time
    hpc,         \* per caller of get()/post(): where it stands in the call
    hloc,        \* per caller: the locals of its call, and how its attempts went
    reqLog,      \* every request handed to the session: [worker, method, sent, ended,
                 \* outcome]
    tpc,         \* per thread that calls filter() on the one DataFilter: where it stands
    tloc         \* per thread: the locals of its filter() call: items, idx, hash, stats,
                 \* result

crawlVars == <<pc, exitCode, session, closeCount, parsers, regLog, siteIdx, allItems, page,
               maxPages, curParser, pageItems, fetchLog, siteLog>>
filterVars == <<seen, items, stats, result, calls, callLog, epoch, statsOut>>
envVars == <<config, args, now, served>>
clientVars == <<seenOther, otherLog, rec, trace>>
httpVars == <<clock, delay, retryTimes, lastRequestTime, hpc, hloc, reqLog>>
threadVars == <<tpc, tloc>>
vars == <<config, args, now, served, pc, exitCode, session, closeCount, parsers, regLog,
          siteIdx, allItems, page, maxPages, curParser, pageItems, fetchLog, siteLog, seen,
          items, stats, result, calls, callLog, epoch, statsOut, seenOther, otherLog,
          rec, trace, clock, delay, retryTimes, lastRequestTime, hpc, hloc, reqLog,
          tpc, tloc>>

----------------------------------------------------------------------------
(* Bounds of the model.                                                    *)

MaxPages == 3       \* largest max_pages explored
MaxItems == 2       \* most candidates in the list a client hands to filter()
MaxCalls == 2       \* most filter() calls of one DataFilter instance
TicksPerDay == 2    \* clock resolution
MaxDelay == 2       \* largest request_delay explored, in ticks
MaxRetries == 1     \* largest retry_times explored
HttpTimeout == 1    \* HttpClient.timeout, in ticks
MaxRequests == 2    \* most get()/post() calls on one HttpClient

(* Program constants.                                                      *)
MinTitleLen == 5
MaxTitleLen == 500
AmountScale == 100  \* round(value, 2): amounts are counted in hundredths

----------------------------------------------------------------------------
(* Text.                                                                   *)

Range(s) == {s[i] : i \in 1..Len(s)}

SeqsUpTo(S, n) == UNION {[1..k -> S] : k \in 0..n}

RECURSIVE Concat(_)
Concat(ss) == IF ss = <<>> THEN <<>> ELSE Head(ss) \o Concat(Tail(ss))

\* the lower case of a character; the keywords explored are made of a, b, A and B
LowerChar(c) == IF c = "A" THEN "a" ELSE IF c = "B" THEN "b" ELSE c

\* a faulty lower(): the text as it is
LowerNone(s) == s

\* str.lower()
Lower(s) == IF s = <<>> THEN <<>> ELSE [i \in 1..Len(s) |-> LowerChar(s[i])]

\* the Python test `k in t` on two strs
IsSubstr(k, t) == \E i \in 0..(Len(t) - Len(k)) : SubSeq(t, i + 1, i + Len(k)) = k

Digits == <<"0", "1", "2", "3", "4", "5", "6", "7", "8", "9">>

\* the calendar day of a datetime; the days modelled are 2026-11-01 .. 2026-11-09
DayOf(t) == t \div TicksPerDay

\* datetime.strftime('%Y%m%d')
StrfDay(t) == <<"2", "0", "2", "6", "1", "1", "0", Digits[DayOf(t) + 1]>>

\* two ASCII texts of 72 characters, different in their 22nd character, that MD5 maps
\* to the same digest faad49866e9498fc1719f5289e7a0269
CollisionA ==
    <<"T", "E", "X", "T", "C", "O", "L", "L", "B", "Y", "f", "G",
      "i", "J", "U", "E", "T", "H", "Q", "4", "h", "A", "c", "K",
      "S", "M", "d", "5", "z", "Y", "p", "g", "q", "f", "1", "Y",
      "R", "D", "h", "k", "m", "x", "H", "k", "h", "P", "W", "p",
      "t", "r", "k", "o", "y", "z", "2", "8", "w", "n", "I", "9",
      "V", "0", "a", "H", "e", "A", "u", "a", "K", "n", "a", "k">>

CollisionB ==
    <<"T", "E", "X", "T", "C", "O", "L", "L", "B", "Y", "f", "G",
      "i", "J", "U", "E", "T", "H", "Q", "4", "h", "E", "c", "K",
      "S", "M", "d", "5", "z", "Y", "p", "g", "q", "f", "1", "Y",
      "R", "D", "h", "k", "m", "x", "H", "k", "h", "P", "W", "p",
      "t", "r", "k", "o", "y", "z", "2", "8", "w", "n", "I", "9",
      "V", "0", "a", "H", "e", "A", "u", "a", "K", "n", "a", "k">>

\* hashlib.md5(text.encode('utf-8')).hexdigest(): a function of the text alone; the
\* digest has 128 bits, so it is not injective, and the two texts above are a pair it
\* maps to one value
Md5Hex(text) == IF text = CollisionB THEN <<"md5", CollisionA>> ELSE <<"md5", text>>

----------------------------------------------------------------------------
(* BidInfo.                                                                *)

\* a faulty constructor: the record is born with a content_hash
NewBidInfoHashed(title, url, source, publish_date, purchaser, budget) ==
    [title |-> title, url |-> url, source |-> source, purchaser |-> purchaser,
     publish_date |-> publish_date, budget |-> budget, industry |-> <<>>,
     matched_keywords |-> <<>>, content_hash |-> <<title>>]

\* BidInfo(**item) for an item with the keys title, url, source, publish_date, purchaser
NewBidInfo(title, url, source, publish_date, purchaser, budget) ==
    [title |-> title, url |-> url, source |-> source, purchaser |-> purchaser,
     publish_date |-> publish_date, budget |-> budget, industry |-> <<>>,
     matched_keywords |-> <<>>, content_hash |-> <<>>]

\* a faulty is_valid: the two limits themselves are refused
IsValidStrict(r) ==
    IF r.title = <<>> \/ r.url = <<>> \/ r.source = <<>> THEN FALSE
    ELSE IF Len(r.title) <= MinTitleLen \/ Len(r.title) >= MaxTitleLen THEN FALSE
    ELSE TRUE

\* BidInfo.is_valid
IsValid(r) ==
    IF r.title = <<>> \/ r.url = <<>> \/ r.source = <<>> THEN FALSE
    ELSE IF Len(r.title) < MinTitleLen \/ Len(r.title) > MaxTitleLen THEN FALSE
    ELSE TRUE

\* a faulty unique_str: the source takes part in it
UniqueStrWithSource(r) ==
    r.title
    \o (IF r.publish_date # <<>> THEN <<"_">> \o StrfDay(r.publish_date[1]) ELSE <<>>)
    \o (IF r.purchaser # <<>> THEN <<"_">> \o r.purchaser ELSE <<>>)
    \o <<"_">> \o r.source

\* the unique_str of BidInfo.calculate_hash
UniqueStr(r) ==
    r.title
    \o (IF r.publish_date # <<>> THEN <<"_">> \o StrfDay(r.publish_date[1]) ELSE <<>>)
    \o (IF r.purchaser # <<>> THEN <<"_">> \o r.purchaser ELSE <<>>)

\* BidInfo.calculate_hash: [value, item], the item with content_hash set
CalculateHash(r) ==
    LET h == Md5Hex(UniqueStr(r))
    IN  [value |-> h, item |-> [r EXCEPT !.content_hash = <<h>>]]

\* the list `matched` of BidInfo.match_keywords
MatchedOf(title, keywords) ==
    SelectSeq(keywords, LAMBDA k : IsSubstr(Lower(k), Lower(title)))

\* BidInfo.match_keywords: [ok, item]
MatchKeywords(r, keywords) ==
    IF keywords = <<>> THEN [ok |-> FALSE, item |-> r]
    ELSE LET matched == MatchedOf(r.title, keywords)
         IN  IF matched # <<>>
             THEN [ok |-> TRUE, item |-> [r EXCEPT !.matched_keywords = matched]]
             ELSE [ok |-> FALSE, item |-> r]

IndustryMatches(ind, purchaser) ==
    \E i \in 1..Len(ind.keywords) : IsSubstr(Lower(ind.keywords[i]), Lower(purchaser))

\* a faulty classify_industry: the last matching industry wins
ClassifyIndustryLast(r, industries) ==
    LET hits == {i \in 1..Len(industries) : IndustryMatches(industries[i], r.purchaser)}
    IN  IF hits = {} THEN r
        ELSE LET last == CHOOSE i \in hits : \A j \in hits : i >= j
             IN  [r EXCEPT !.industry = <<industries[last].name>>]

\* BidInfo.classify_industry: the item, with industry stamped by the first match
ClassifyIndustry(r, industries) ==
    LET hits == {i \in 1..Len(industries) : IndustryMatches(industries[i], r.purchaser)}
    IN  IF hits = {} THEN r
        ELSE LET first == CHOOSE i \in hits : \A j \in hits : i <= j
             IN  [r EXCEPT !.industry = <<industries[first].name>>]

----------------------------------------------------------------------------
(* ConfigManager.                                                          *)

GetWebsites(cfg) == SelectSeq(cfg.websites, LAMBDA w : w.enabled)

\* whether get_websites returns at all: `site.get` raises AttributeError on an entry
\* of the websites list that is not a mapping
WebsitesAreMappings(cfg) == \A i \in 1..Len(cfg.websites) : cfg.websites[i].mapping

GetKeywords(cfg) == cfg.tech_keywords

GetIndustries(cfg) == SelectSeq(cfg.industries, LAMBDA ind : ind.enabled)

----------------------------------------------------------------------------
(* helpers.is_date_in_range                                                *)

\* a faulty is_date_in_range: the limit itself is out of range
IsDateInRangeStrict(date, days, nowT) == date > nowT - days * TicksPerDay

IsDateInRange(date, days, nowT) == date >= nowT - days * TicksPerDay

----------------------------------------------------------------------------
(* DataFilter: the stage helpers.  Each returns what the method returns    *)
(* together with the item and the _seen_hashes it leaves behind.           *)

\* a faulty _check_duplicate: it answers as the method does and forgets to add the hash
CheckDuplicateNoInsert(r, seenH) ==
    LET h == CalculateHash(r)
    IN  IF h.value \in seenH
        THEN [ok |-> FALSE, item |-> h.item, seen |-> seenH]
        ELSE [ok |-> TRUE, item |-> h.item, seen |-> seenH]

\* DataFilter._check_duplicate
CheckDuplicate(r, seenH) ==
    LET h == CalculateHash(r)
    IN  IF h.value \in seenH
        THEN [ok |-> FALSE, item |-> h.item, seen |-> seenH]
        ELSE [ok |-> TRUE, item |-> h.item, seen |-> seenH \cup {h.value}]

\* a faulty _match_keywords: the empty keyword list is handed on to the item
MatchKeywordsStageNoGuard(r, cfg) == MatchKeywords(r, GetKeywords(cfg))

\* DataFilter._match_keywords
MatchKeywordsStage(r, cfg) ==
    LET keywords == GetKeywords(cfg)
    IN  IF keywords = <<>> THEN [ok |-> TRUE, item |-> r]
        ELSE MatchKeywords(r, keywords)

\* DataFilter._check_date_range
CheckDateRange(r, cfg, nowT) ==
    IF cfg.filters.date_range <= 0 THEN TRUE
    ELSE IF r.publish_date = <<>> THEN TRUE
    ELSE IsDateInRange(r.publish_date[1], cfg.filters.date_range, nowT)

\* DataFilter._check_amount_range; `not item.budget` holds of None and of 0
CheckAmountRange(r, cfg) ==
    IF r.budget = <<>> \/ r.budget = <<0>> THEN TRUE
    ELSE IF cfg.filters.min_amount > 0 /\ r.budget[1] < cfg.filters.min_amount THEN FALSE
    ELSE IF cfg.filters.max_amount > 0 /\ r.budget[1] > cfg.filters.max_amount THEN FALSE
    ELSE TRUE

\* DataFilter._classify_industry
ClassifyIndustryStage(r, cfg) ==
    LET industries == GetIndustries(cfg)
    IN  IF industries = <<>> THEN r ELSE ClassifyIndustry(r, industries)

\* a faulty iteration: the duplicate check runs before the validity check
FilterItemDedupFirst(r, seenH, cfg, nowT) ==
    LET d == CheckDuplicate(r, seenH)
    IN  IF ~d.ok
        THEN [item |-> d.item, seen |-> d.seen, verdict |-> "duplicate",
              calls |-> <<"_check_duplicate">>]
        ELSE IF ~IsValid(d.item)
        THEN [item |-> d.item, seen |-> d.seen, verdict |-> "invalid",
              calls |-> <<"_check_duplicate", "is_valid">>]
        ELSE
        LET k == MatchKeywordsStage(d.item, cfg)
        IN  IF ~k.ok
            THEN [item |-> k.item, seen |-> d.seen, verdict |-> "no_keywords",
                  calls |-> <<"_check_duplicate", "is_valid", "_match_keywords">>]
            ELSE IF ~CheckDateRange(k.item, cfg, nowT)
            THEN [item |-> k.item, seen |-> d.seen, verdict |-> "out_of_date",
                  calls |-> <<"_check_duplicate", "is_valid", "_match_keywords",
                              "_check_date_range">>]
            ELSE IF ~CheckAmountRange(k.item, cfg)
            THEN [item |-> k.item, seen |-> d.seen, verdict |-> "out_of_amount",
                  calls |-> <<"_check_duplicate", "is_valid", "_match_keywords",
                              "_check_date_range", "_check_amount_range">>]
            ELSE [item |-> ClassifyIndustryStage(k.item, cfg), seen |-> d.seen,
                  verdict |-> "passed",
                  calls |-> <<"_check_duplicate", "is_valid", "_match_keywords",
                              "_check_date_range", "_check_amount_range",
                              "_classify_industry">>]

\* a faulty iteration: a candidate out of the date range is still handed to the
\* amount check and to the classification before it is counted
FilterItemNoStop(r, seenH, cfg, nowT) ==
    IF ~IsValid(r)
    THEN [item |-> r, seen |-> seenH, verdict |-> "invalid", calls |-> <<"is_valid">>]
    ELSE
    LET d == CheckDuplicate(r, seenH)
    IN  IF ~d.ok
        THEN [item |-> d.item, seen |-> d.seen, verdict |-> "duplicate",
              calls |-> <<"is_valid", "_check_duplicate">>]
        ELSE
        LET k == MatchKeywordsStage(d.item, cfg)
        IN  IF ~k.ok
            THEN [item |-> k.item, seen |-> d.seen, verdict |-> "no_keywords",
                  calls |-> <<"is_valid", "_check_duplicate", "_match_keywords">>]
            ELSE IF ~CheckDateRange(k.item, cfg, nowT)
            THEN [item |-> ClassifyIndustryStage(k.item, cfg), seen |-> d.seen,
                  verdict |-> "out_of_date",
                  calls |-> <<"is_valid", "_check_duplicate", "_match_keywords",
                              "_check_date_range", "_check_amount_range",
                              "_classify_industry">>]
            ELSE IF ~CheckAmountRange(k.item, cfg)
            THEN [item |-> k.item, seen |-> d.seen, verdict |-> "out_of_amount",
                  calls |-> <<"is_valid", "_check_duplicate", "_match_keywords",
                              "_check_date_range", "_check_amount_range">>]
            ELSE [item |-> ClassifyIndustryStage(k.item, cfg), seen |-> d.seen,
                  verdict |-> "passed",
                  calls |-> <<"is_valid", "_check_duplicate", "_match_keywords",
                              "_check_date_range", "_check_amount_range",
                              "_classify_industry">>]

\* a faulty iteration: the hash is added to _seen_hashes only when the candidate has
\* passed every stage
FilterItemInsertOnAccept(r, seenH, cfg, nowT) ==
    IF ~IsValid(r)
    THEN [item |-> r, seen |-> seenH, verdict |-> "invalid", calls |-> <<"is_valid">>]
    ELSE
    LET d == CheckDuplicate(r, seenH)
    IN  IF ~d.ok
        THEN [item |-> d.item, seen |-> seenH, verdict |-> "duplicate",
              calls |-> <<"is_valid", "_check_duplicate">>]
        ELSE
        LET k == MatchKeywordsStage(d.item, cfg)
        IN  IF ~k.ok
            THEN [item |-> k.item, seen |-> seenH, verdict |-> "no_keywords",
                  calls |-> <<"is_valid", "_check_duplicate", "_match_keywords">>]
            ELSE IF ~CheckDateRange(k.item, cfg, nowT)
            THEN [item |-> k.item, seen |-> seenH, verdict |-> "out_of_date",
                  calls |-> <<"is_valid", "_check_duplicate", "_match_keywords",
                              "_check_date_range">>]
            ELSE IF ~CheckAmountRange(k.item, cfg)
            THEN [item |-> k.item, seen |-> seenH, verdict |-> "out_of_amount",
                  calls |-> <<"is_valid", "_check_duplicate", "_match_keywords",
                              "_check_date_range", "_check_amount_range">>]
            ELSE [item |-> ClassifyIndustryStage(k.item, cfg), seen |-> d.seen,
                  verdict |-> "passed",
                  calls |-> <<"is_valid", "_check_duplicate", "_match_keywords",
                              "_check_date_range", "_check_amount_range",
                              "_classify_industry">>]

\* One iteration of the loop of DataFilter.filter on candidate r:
\* [item, seen, verdict, calls], verdict naming the counter the iteration increments.
FilterItem(r, seenH, cfg, nowT) ==
    IF ~IsValid(r)
    THEN [item |-> r, seen |-> seenH, verdict |-> "invalid", calls |-> <<"is_valid">>]
    ELSE
    LET d == CheckDuplicate(r, seenH)
    IN  IF ~d.ok
        THEN [item |-> d.item, seen |-> d.seen, verdict |-> "duplicate",
              calls |-> <<"is_valid", "_check_duplicate">>]
        ELSE
        LET k == MatchKeywordsStage(d.item, cfg)
        IN  IF ~k.ok
            THEN [item |-> k.item, seen |-> d.seen, verdict |-> "no_keywords",
                  calls |-> <<"is_valid", "_check_duplicate", "_match_keywords">>]
            ELSE IF ~CheckDateRange(k.item, cfg, nowT)
            THEN [item |-> k.item, seen |-> d.seen, verdict |-> "out_of_date",
                  calls |-> <<"is_valid", "_check_duplicate", "_match_keywords",
                              "_check_date_range">>]
            ELSE IF ~CheckAmountRange(k.item, cfg)
            THEN [item |-> k.item, seen |-> d.seen, verdict |-> "out_of_amount",
                  calls |-> <<"is_valid", "_check_duplicate", "_match_keywords",
                              "_check_date_range", "_check_amount_range">>]
            ELSE [item |-> ClassifyIndustryStage(k.item, cfg), seen |-> d.seen,
                  verdict |-> "passed",
                  calls |-> <<"is_valid", "_check_duplicate", "_match_keywords",
                              "_check_date_range", "_check_amount_range",
                              "_classify_industry">>]

Counters == {"invalid", "duplicate", "no_keywords", "out_of_date", "out_of_amount", "passed"}

\* the stats dict of filter() at the start of the loop
NewStats(n) == [c \in Counters \cup {"total"} |-> IF c = "total" THEN n ELSE 0]

Count(s, P(_)) == Cardinality({i \in 1..Len(s) : P(s[i])})

RECURSIVE SumSeq(_)
SumSeq(ns) == IF ns = <<>> THEN 0 ELSE Head(ns) + SumSeq(Tail(ns))

\* a faulty get_statistics: a record without industry is left out of by_industry
GetStatisticsNoDefault(rs) ==
    LET sourceOf(r) == IF r.source = <<>> THEN <<"unknown">> ELSE r.source
        classified == SelectSeq(rs, LAMBDA r : r.industry # <<>>)
        dated == SelectSeq(rs, LAMBDA r : r.publish_date # <<>>)
    IN  [total |-> Len(rs),
         by_source |-> [s \in {sourceOf(r) : r \in Range(rs)} |->
                            Count(rs, LAMBDA r : sourceOf(r) = s)],
         by_industry |-> [n \in {r.industry[1] : r \in Range(classified)} |->
                            Count(classified, LAMBDA r : r.industry[1] = n)],
         by_date |-> [d \in {DayOf(r.publish_date[1]) : r \in Range(dated)} |->
                            Count(dated, LAMBDA r : DayOf(r.publish_date[1]) = d)],
         keywords |-> [k \in UNION {Range(r.matched_keywords) : r \in Range(rs)} |->
                            SumSeq([i \in 1..Len(rs) |->
                                       Count(rs[i].matched_keywords, LAMBDA m : m = k)])]]

\* DataFilter.get_statistics: total and the grouped counts, each a function from the
\* group's key to its count
GetStatistics(rs) ==
    LET sourceOf(r) == IF r.source = <<>> THEN <<"unknown">> ELSE r.source
        industryOf(r) == IF r.industry = <<>> THEN "other" ELSE r.industry[1]
        dated == SelectSeq(rs, LAMBDA r : r.publish_date # <<>>)
    IN  [total |-> Len(rs),
         by_source |-> [s \in {sourceOf(r) : r \in Range(rs)} |->
                            Count(rs, LAMBDA r : sourceOf(r) = s)],
         by_industry |-> [n \in {industryOf(r) : r \in Range(rs)} |->
                            Count(rs, LAMBDA r : industryOf(r) = n)],
         by_date |-> [d \in {DayOf(r.publish_date[1]) : r \in Range(dated)} |->
                            Count(dated, LAMBDA r : DayOf(r.publish_date[1]) = d)],
         keywords |-> [k \in UNION {Range(r.matched_keywords) : r \in Range(rs)} |->
                            SumSeq([i \in 1..Len(rs) |->
                                       Count(rs[i].matched_keywords, LAMBDA m : m = k)])]]

----------------------------------------------------------------------------
(* DataFilter: the operations.                                             *)

\* the locals of filter(its) after n iterations of `for item in items`
RECURSIVE FilterLoop(_, _, _, _, _)
FilterLoop(its, seenH, cfg, nowT, n) ==
    IF n = 0
    THEN [items |-> its, seen |-> seenH, stats |-> NewStats(Len(its)), result |-> <<>>,
          calls |-> <<>>]
    ELSE LET prev == FilterLoop(its, seenH, cfg, nowT, n - 1)
             out == FilterItem(prev.items[n], prev.seen, cfg, nowT)
         IN  [items |-> [prev.items EXCEPT ![n] = out.item],
              seen |-> out.seen,
              stats |-> [prev.stats EXCEPT ![out.verdict] = @ + 1],
              result |-> IF out.verdict = "passed" THEN Append(prev.result, n)
                         ELSE prev.result,
              calls |-> Append(prev.calls, out.calls)]

\* DataFilter.filter(its) from entry to return
Filter(its) ==
    IF its = <<>>
    THEN /\ result' = <<>>
         /\ items' = its
         /\ calls' = <<>>
         /\ callLog' = Append(callLog, [input |-> its, result |-> <<>>, records |-> <<>>,
                                        before |-> seen, after |-> seen, epoch |-> epoch])
         /\ UNCHANGED <<seen, stats>>
    ELSE LET end == FilterLoop(its, seen, config, now, Len(its))
         IN  /\ items' = end.items
             /\ seen' = end.seen
             /\ stats' = end.stats
             /\ result' = end.result
             /\ calls' = end.calls
             /\ callLog' = Append(callLog, [input |-> its, result |-> end.result,
                                            records |-> end.items,
                                            before |-> seen, after |-> end.seen,
                                            epoch |-> epoch])

\* a client calls filter() on the candidate list it holds
ApiFilter ==
    /\ pc = "api"
    /\ Len(callLog) < MaxCalls
    /\ Filter(items)
    /\ UNCHANGED <<epoch, statsOut>>
    /\ UNCHANGED <<envVars, httpVars, threadVars, crawlVars, clientVars>>

\* a client calls reset()
Reset ==
    /\ pc = "api"
    /\ seen # {}
    /\ seen' = {}
    /\ epoch' = epoch + 1
    /\ UNCHANGED <<items, stats, result, calls, callLog, statsOut>>
    /\ UNCHANGED <<envVars, httpVars, threadVars, crawlVars, clientVars>>

\* a client calls get_statistics() on the records filter() returned last
ApiGetStatistics ==
    /\ pc = "api"
    /\ callLog # <<>>
    /\ statsOut = <<>>
    /\ statsOut' = <<GetStatistics([k \in 1..Len(result) |-> items[result[k]]])>>
    /\ UNCHANGED <<seen, items, stats, result, calls, callLog, epoch>>
    /\ UNCHANGED <<envVars, httpVars, threadVars, crawlVars, clientVars>>

\* a faulty second instance: _seen_hashes is one set of the class, shared by all
ApiFilterOtherShared ==
    /\ pc = "api"
    /\ Len(otherLog) < MaxCalls
    /\ items # <<>>
    /\ LET end == FilterLoop(items, seen, config, now, Len(items))
       IN  /\ items' = end.items
           /\ seen' = end.seen
           /\ otherLog' = Append(otherLog, [input |-> items, result |-> end.result,
                                            records |-> end.items, before |-> seen,
                                            after |-> end.seen])
    /\ UNCHANGED <<seenOther, stats, result, calls, callLog, epoch, statsOut, rec, trace>>
    /\ UNCHANGED <<envVars, httpVars, threadVars, crawlVars>>

\* a client calls filter() of a second DataFilter, built from the same configuration,
\* on the same list; its _seen_hashes is the set its own __init__ created
ApiFilterOther ==
    /\ pc = "api"
    /\ Len(otherLog) < MaxCalls
    /\ items # <<>>
    /\ LET end == FilterLoop(items, seenOther, config, now, Len(items))
       IN  /\ items' = end.items
           /\ seenOther' = end.seen
           /\ otherLog' = Append(otherLog, [input |-> items, result |-> end.result,
                                            records |-> end.items, before |-> seenOther,
                                            after |-> end.seen])
    /\ UNCHANGED <<seen, stats, result, calls, callLog, epoch, statsOut, rec, trace>>
    /\ UNCHANGED <<envVars, httpVars, threadVars, crawlVars>>

----------------------------------------------------------------------------
(* BaseParser: fetch_list and one iteration of fetch_all.                  *)

\* what a list page holds, per candidate: a complete item, one without title, one
\* without url, one with a key BidInfo does not take
Kinds == {"ok", "notitle", "nourl", "extra", "ownsource"}

CrawlTitle == <<"a", "x", "x", "x", "x">>

\* the purchaser the list pages of the sites name
CrawlPurchaser == <<"A", "b">>

\* the item dict parse_list returns for the candidate at position pos of page p of site w
Candidate(kind, w, p, pos) ==
    [title |-> IF kind = "notitle" THEN <<>> ELSE CrawlTitle,
     url |-> IF kind = "nourl" THEN <<>> ELSE w.url \o <<p, pos>>,
     source |-> IF kind = "ownsource" THEN <<"elsewhere">> ELSE <<>>,
     purchaser |-> CrawlPurchaser,
     extra |-> kind = "extra"]

\* a faulty loop: item.setdefault('source', self.name)
RECURSIVE BuildBidInfosKeepSource(_, _, _, _)
BuildBidInfosKeepSource(kinds, w, p, pos) ==
    IF pos > Len(kinds) THEN <<>>
    ELSE LET item == Candidate(kinds[pos], w, p, pos)
             rest == BuildBidInfosKeepSource(kinds, w, p, pos + 1)
             stamped == IF item.source = <<>> THEN [item EXCEPT !.source = w.name] ELSE item
         IN  IF item.title = <<>> \/ item.url = <<>> THEN rest
             ELSE IF item.extra THEN rest
             ELSE <<NewBidInfo(stamped.title, stamped.url, stamped.source, <<>>,
                               stamped.purchaser, <<>>)>> \o rest

\* the loop of fetch_list over the parsed items: the BidInfo list it builds
RECURSIVE BuildBidInfos(_, _, _, _)
BuildBidInfos(kinds, w, p, pos) ==
    IF pos > Len(kinds) THEN <<>>
    ELSE LET item == Candidate(kinds[pos], w, p, pos)
             rest == BuildBidInfos(kinds, w, p, pos + 1)
             stamped == [item EXCEPT !.source = w.name]
         IN  IF item.title = <<>> \/ item.url = <<>> THEN rest
             ELSE IF item.extra THEN rest
             ELSE <<NewBidInfo(stamped.title, stamped.url, stamped.source, <<>>,
                               stamped.purchaser, <<>>)>> \o rest

\* the answers of one fetch_list call: get_list_url raises, http_client.get raises,
\* the body is empty, parse_list raises, or parse_list returns the items of `kinds`
PageOutcomes ==
    {[kind |-> k, kinds |-> <<>>] : k \in {"url_error", "fetch_error", "empty_body",
                                           "parse_error"}}
    \cup {[kind |-> "parsed", kinds |-> ks] : ks \in served}

\* BaseParser.fetch_list of the parser built from website config w
FetchList(o, w, p) ==
    IF o.kind = "parsed" THEN BuildBidInfos(o.kinds, w, p, 1) ELSE <<>>

\* whether fetch_list got as far as http_client.get
IssuesFetch(o) == o.kind # "url_error"

----------------------------------------------------------------------------
(* CrawlerEngine.                                                          *)

ParserClasses == {"ccgp", "cebp", "chinabidding"}

NoParsers == [k \in ParserClasses |-> <<>>]

\* the loop of _register_parsers; built[i] tells whether constructing the parser of
\* the i-th website succeeds
RECURSIVE RegisterParsers(_, _, _)
RegisterParsers(ws, built, reg) ==
    IF ws = <<>> THEN reg
    ELSE LET w == Head(ws)
         IN  IF w.parser = "" THEN RegisterParsers(Tail(ws), Tail(built), reg)
             ELSE IF w.parser \notin ParserClasses
             THEN RegisterParsers(Tail(ws), Tail(built), reg)
             ELSE IF ~Head(built) THEN RegisterParsers(Tail(ws), Tail(built), reg)
             ELSE RegisterParsers(Tail(ws), Tail(built),
                                  [reg EXCEPT ![w.parser] = <<w>>])

\* what _register_parsers logs for website w
Registration(w, isBuilt) ==
    IF w.parser = "" THEN "no_parser_key"
    ELSE IF w.parser \notin ParserClasses THEN "unknown_parser"
    ELSE IF ~isBuilt THEN "construction_failed"
    ELSE "registered"

\* CrawlerEngine.get_parser
GetParser(reg, key) == IF key \in ParserClasses THEN reg[key] ELSE <<>>

\* CrawlerEngine.close then HttpClient.close
CloseEngine ==
    /\ session' = "closed"
    /\ closeCount' = closeCount + 1

\* CrawlerEngine.__init__ as main() calls it in its with statement: HttpClient() opens
\* the session, then _register_parsers runs.  When get_websites raises, so does the
\* constructor: the with block is never entered, __exit__ never runs, and main()
\* returns 1 from `except Exception`.
EngineInit ==
    /\ pc = "start"
    /\ session' = "open"
    /\ IF WebsitesAreMappings(config)
       THEN /\ \E built \in [1..Len(GetWebsites(config)) -> BOOLEAN] :
                  /\ parsers' = RegisterParsers(GetWebsites(config), built, NoParsers)
                  /\ regLog' = [i \in 1..Len(GetWebsites(config)) |->
                                   Registration(GetWebsites(config)[i], built[i])]
            /\ pc' = "crawl_all"
            /\ UNCHANGED exitCode
       ELSE /\ pc' = "done"
            /\ exitCode' = <<1>>
            /\ UNCHANGED <<parsers, regLog>>
    /\ UNCHANGED <<closeCount, siteIdx, allItems, page, maxPages, curParser,
                   pageItems, fetchLog, siteLog>>
    /\ UNCHANGED <<envVars, httpVars, threadVars, filterVars, clientVars>>

\* a faulty crawl_all: the test `if not keywords` is missing
CrawlAllBeginNoKeywordTest ==
    /\ pc = "crawl_all"
    /\ allItems' = <<>>
    /\ IF GetWebsites(config) = <<>>
       THEN pc' = "crawled" /\ UNCHANGED siteIdx
       ELSE pc' = "site" /\ siteIdx' = 1
    /\ UNCHANGED <<exitCode, session, closeCount, parsers, regLog, page, maxPages, curParser,
                   pageItems, fetchLog, siteLog>>
    /\ UNCHANGED <<envVars, httpVars, threadVars, filterVars, clientVars>>

\* crawl_all up to its loop
CrawlAllBegin ==
    /\ pc = "crawl_all"
    /\ allItems' = <<>>
    /\ IF GetWebsites(config) = <<>> \/ GetKeywords(config) = <<>>
       THEN pc' = "crawled" /\ UNCHANGED siteIdx
       ELSE pc' = "site" /\ siteIdx' = 1
    /\ UNCHANGED <<exitCode, session, closeCount, parsers, regLog, page, maxPages, curParser,
                   pageItems, fetchLog, siteLog>>
    /\ UNCHANGED <<envVars, httpVars, threadVars, filterVars, clientVars>>

\* a faulty crawl_all: it gives up on the remaining websites when crawl_website does not
\* come back from the driver with a list
EndWebsiteAbort(w, outcome, its) ==
    /\ siteLog' = Append(siteLog, [site |-> w.name, outcome |-> outcome, items |-> its])
    /\ allItems' = allItems \o its
    /\ siteIdx' = IF outcome = "returned" THEN siteIdx + 1
                  ELSE Len(GetWebsites(config)) + 1
    /\ pc' = "site"

\* a faulty crawl_all: the records of a website go in front of the ones collected so far
EndWebsitePrepend(w, outcome, its) ==
    /\ siteLog' = Append(siteLog, [site |-> w.name, outcome |-> outcome, items |-> its])
    /\ allItems' = its \o allItems
    /\ siteIdx' = siteIdx + 1
    /\ pc' = "site"

\* crawl_website returns `its` to the loop of crawl_all
EndWebsite(w, outcome, its) ==
    /\ siteLog' = Append(siteLog, [site |-> w.name, outcome |-> outcome, items |-> its])
    /\ allItems' = allItems \o its
    /\ siteIdx' = siteIdx + 1
    /\ pc' = "site"

\* max_pages as crawl_website hands it to fetch_all: [int, val]
EffectiveMaxPages ==
    IF args.max_pages = <<>> THEN config.crawler.max_pages
    ELSE [int |-> TRUE, val |-> args.max_pages[1]]

\* crawl_website up to the first iteration of fetch_all
CrawlWebsite ==
    /\ pc = "site"
    /\ siteIdx <= Len(GetWebsites(config))
    /\ LET w == GetWebsites(config)[siteIdx]
           parser == GetParser(parsers, w.parser)
           mp == EffectiveMaxPages
       IN  IF parser = <<>>
           THEN EndWebsite(w, "no_parser", <<>>)
                /\ UNCHANGED <<page, maxPages, curParser, pageItems>>
           ELSE IF ~mp.int
           THEN EndWebsite(w, "exception", <<>>)
                /\ UNCHANGED <<page, maxPages, curParser, pageItems>>
           ELSE IF mp.val < 1
           THEN EndWebsite(w, "returned", <<>>)
                /\ UNCHANGED <<page, maxPages, curParser, pageItems>>
           ELSE /\ curParser' = parser
                /\ maxPages' = mp.val
                /\ page' = 1
                /\ pageItems' = <<>>
                /\ pc' = "pages"
                /\ UNCHANGED <<siteLog, allItems, siteIdx>>
    /\ UNCHANGED <<exitCode, session, closeCount, parsers, regLog, fetchLog>>
    /\ UNCHANGED <<envVars, httpVars, threadVars, filterVars, clientVars>>

\* a faulty extend: the page's items replace the ones collected so far
ExtendReplace(all, its) == its

\* all_items.extend(items) in fetch_all
Extend(all, its) == all \o its

\* a faulty loop exit: an empty page does not end the pagination
LeavesLoopNoBreak(its, p, mp) == p >= mp

\* a faulty loop: range(1, max_pages + 2)
LeavesLoopOnePast(its, p, mp) == its = <<>> \/ p > mp

\* whether fetch_all leaves its loop after fetch_list returned `its` for page p
LeavesLoop(its, p, mp) == its = <<>> \/ p >= mp

\* one iteration of the loop of fetch_all, and the return of fetch_all and
\* crawl_website when the loop ends with it
FetchAllStep ==
    /\ pc = "pages"
    /\ \E o \in PageOutcomes :
          LET w == GetWebsites(config)[siteIdx]
              its == FetchList(o, curParser[1], page)
              got == IF its = <<>> THEN pageItems ELSE Extend(pageItems, its)
          IN  /\ fetchLog' = Append(fetchLog, [site |-> w.name,
                                               source |-> curParser[1].name,
                                               page |-> page, outcome |-> o.kind,
                                               parsed |-> o.kinds,
                                               fetched |-> IssuesFetch(o), items |-> its])
              /\ IF LeavesLoop(its, page, maxPages)
                 THEN EndWebsite(w, "returned", got)
                      /\ UNCHANGED <<page, pageItems>>
                 ELSE /\ page' = page + 1
                      /\ pageItems' = got
                      /\ UNCHANGED <<siteLog, allItems, siteIdx, pc>>
    /\ UNCHANGED <<exitCode, session, closeCount, parsers, regLog, maxPages, curParser>>
    /\ UNCHANGED <<envVars, httpVars, threadVars, filterVars, clientVars>>

\* crawl_all returns
CrawlAllEnd ==
    /\ pc = "site"
    /\ siteIdx > Len(GetWebsites(config))
    /\ pc' = "crawled"
    /\ UNCHANGED <<exitCode, session, closeCount, parsers, regLog, siteIdx, allItems, page,
                   maxPages, curParser, pageItems, fetchLog, siteLog>>
    /\ UNCHANGED <<envVars, httpVars, threadVars, filterVars, clientVars>>

----------------------------------------------------------------------------
(* main(): the body of `with CrawlerEngine(config) as engine`.             *)

\* main() returns `code` from inside the with block: __exit__ closes the engine
ReturnFromWith(code) ==
    /\ CloseEngine
    /\ exitCode' = <<code>>
    /\ pc' = "done"

\* `if not raw_items: return 0`
MainAfterCrawl ==
    /\ pc = "crawled"
    /\ IF allItems = <<>>
       THEN ReturnFromWith(0)
       ELSE pc' = "filter" /\ UNCHANGED <<exitCode, session, closeCount>>
    /\ UNCHANGED <<parsers, regLog, siteIdx, allItems, page, maxPages, curParser, pageItems,
                   fetchLog, siteLog>>
    /\ UNCHANGED <<envVars, httpVars, threadVars, filterVars, clientVars>>

\* DataFilter(config).filter(raw_items), then `if not filtered_items: return 0`
MainFilter ==
    /\ pc = "filter"
    /\ Filter(allItems)
    /\ IF result' = <<>>
       THEN ReturnFromWith(0)
       ELSE pc' = "stats" /\ UNCHANGED <<exitCode, session, closeCount>>
    /\ UNCHANGED <<epoch, statsOut>>
    /\ UNCHANGED <<parsers, regLog, siteIdx, allItems, page, maxPages, curParser, pageItems,
                   fetchLog, siteLog>>
    /\ UNCHANGED <<envVars, httpVars, threadVars, clientVars>>

\* data_filter.get_statistics(filtered_items)
MainStatistics ==
    /\ pc = "stats"
    /\ statsOut' = <<GetStatistics([k \in 1..Len(result) |-> items[result[k]]])>>
    /\ pc' = "report"
    /\ UNCHANGED <<seen, items, stats, result, calls, callLog, epoch>>
    /\ UNCHANGED <<exitCode, session, closeCount, parsers, regLog, siteIdx, allItems, page,
                   maxPages, curParser, pageItems, fetchLog, siteLog>>
    /\ UNCHANGED <<envVars, httpVars, threadVars, clientVars>>

\* ReportGenerator(config).generate(filtered_items): returns, or raises into
\* `except Exception`
MainReport ==
    /\ pc = "report"
    /\ \E raised \in BOOLEAN : ReturnFromWith(IF raised THEN 1 ELSE 0)
    /\ UNCHANGED <<parsers, regLog, siteIdx, allItems, page, maxPages, curParser, pageItems,
                   fetchLog, siteLog>>
    /\ UNCHANGED <<envVars, httpVars, threadVars, filterVars, clientVars>>

WithBody == {"crawl_all", "site", "pages", "crawled", "filter", "stats", "report"}

\* KeyboardInterrupt inside the with block: no `except Exception` catches it, __exit__
\* runs, main() returns 130
Interrupt ==
    /\ pc \in WithBody
    /\ ReturnFromWith(130)
    /\ UNCHANGED <<parsers, regLog, siteIdx, allItems, page, maxPages, curParser, pageItems,
                   fetchLog, siteLog>>
    /\ UNCHANGED <<envVars, httpVars, threadVars, filterVars, clientVars>>

----------------------------------------------------------------------------
(* helpers.parse_amount and helpers.parse_date.  A text is a sequence of   *)
(* characters; the characters 亿 万 千 元 年 月 日 are written "Yi", "Wan",   *)
(* "Qian", "Yuan", "Nian", "Yue", "Ri".  An amount is a number of          *)
(* hundredths of 万元, a date is [year, month, day].                        *)

IsDigit(c) == c \in Range(Digits)

DigitValue(c) == (CHOOSE i \in 1..Len(Digits) : Digits[i] = c) - 1

\* int() of a run of digits
RECURSIVE IntOf(_)
IntOf(ds) ==
    IF ds = <<>> THEN 0
    ELSE IntOf(SubSeq(ds, 1, Len(ds) - 1)) * 10 + DigitValue(ds[Len(ds)])

RECURSIVE Pow10(_)
Pow10(n) == IF n = 0 THEN 1 ELSE 10 * Pow10(n - 1)

\* re.sub(r'[,，\s]', '', amount_str)
CleanAmount(text) == SelectSeq(text, LAMBDA c : c \notin {",", " "})

\* re.search(r'([\d.]+)', amount_str): the first longest run of digits and dots, or <<>>
FirstNumber(text) ==
    LET numChar(i) == IsDigit(text[i]) \/ text[i] = "."
        starts == {i \in 1..Len(text) : numChar(i)}
    IN  IF starts = {} THEN <<>>
        ELSE LET a == CHOOSE i \in starts : \A j \in starts : i <= j
                 ends == {j \in a..Len(text) : \A k \in a..j : numChar(k)}
                 b == CHOOSE j \in ends : \A k \in ends : k <= j
             IN  SubSeq(text, a, b)

\* float(run): ValueError unless the run holds a digit and at most one dot; the value
\* is num / den
FloatOf(run) ==
    LET dots == {i \in 1..Len(run) : run[i] = "."}
        digits == SelectSeq(run, IsDigit)
    IN  IF Cardinality(dots) > 1 \/ digits = <<>>
        THEN [ok |-> FALSE, num |-> 0, den |-> 1]
        ELSE [ok |-> TRUE, num |-> IntOf(digits),
              den |-> IF dots = {} THEN 1
                      ELSE Pow10(Len(run) - (CHOOSE i \in dots : TRUE))]

\* a faulty choice of the unit: 元 is taken for 万元
ConvertUnitYuanKept(text) ==
    IF "Yi" \in Range(text) THEN [num |-> 10000, den |-> 1]
    ELSE IF "Wan" \in Range(text) THEN [num |-> 1, den |-> 1]
    ELSE IF "Qian" \in Range(text) THEN [num |-> 1, den |-> 10]
    ELSE [num |-> 1, den |-> 1]

\* the factor num / den that turns the number into 万元, by the unit the text holds
ConvertUnit(text) ==
    IF "Yi" \in Range(text) THEN [num |-> 10000, den |-> 1]
    ELSE IF "Wan" \in Range(text) THEN [num |-> 1, den |-> 1]
    ELSE IF "Qian" \in Range(text) THEN [num |-> 1, den |-> 10]
    ELSE IF "Yuan" \in Range(text) THEN [num |-> 1, den |-> 10000]
    ELSE [num |-> 1, den |-> 1]

\* round(num / den, 2), in hundredths.  A value exactly between two hundredths goes
\* where its binary representation lies; it is sent to the even one here, and the
\* texts explored hold no such value.
Round2(num, den) ==
    LET p == num * AmountScale
        q == p \div den
        r == p % den
    IN  IF 2 * r > den THEN q + 1
        ELSE IF 2 * r < den THEN q
        ELSE IF q % 2 = 0 THEN q ELSE q + 1

\* helpers.parse_amount: Optional, the amount in hundredths of 万元
ParseAmount(text) ==
    IF text = <<>> THEN <<>>
    ELSE LET cleaned == CleanAmount(text)
             run == FirstNumber(cleaned)
         IN  IF run = <<>> THEN <<>>
             ELSE LET f == FloatOf(run)
                      u == ConvertUnit(cleaned)
                  IN  IF ~f.ok THEN <<>>
                      ELSE <<Round2(f.num * u.num, f.den * u.den)>>

\* str.strip() of the blanks explored
RECURSIVE Strip(_)
Strip(text) ==
    IF text = <<>> THEN <<>>
    ELSE IF Head(text) = " " THEN Strip(Tail(text))
    ELSE IF text[Len(text)] = " " THEN Strip(SubSeq(text, 1, Len(text) - 1))
    ELSE text

\* whether text holds digits at all the positions a..b
DigitsAt(text, a, b) == b <= Len(text) /\ \A k \in a..b : IsDigit(text[k])

\* a match of (\d{4})[sep1](\d{1,2})[sep2](\d{1,2}) that starts at position i: Optional,
\* the three groups; the month takes two digits if the rest then matches, the day takes
\* two digits if it can
SeparatedAt(text, i, sep1, sep2) ==
    LET sepAt(k, seps) == k <= Len(text) /\ text[k] \in seps
        dayFrom(d) == IF DigitsAt(text, d, d + 1) THEN SubSeq(text, d, d + 1)
                      ELSE SubSeq(text, d, d)
        with(m) == /\ DigitsAt(text, i + 5, i + 4 + m)
                   /\ sepAt(i + 5 + m, sep2)
                   /\ DigitsAt(text, i + 6 + m, i + 6 + m)
        groups(m) == <<[year |-> IntOf(SubSeq(text, i, i + 3)),
                        month |-> IntOf(SubSeq(text, i + 5, i + 4 + m)),
                        day |-> IntOf(dayFrom(i + 6 + m))]>>
    IN  IF ~(DigitsAt(text, i, i + 3) /\ sepAt(i + 4, sep1)) THEN <<>>
        ELSE IF with(2) THEN groups(2)
        ELSE IF with(1) THEN groups(1)
        ELSE <<>>

\* a match of (\d{4})(\d{2})(\d{2}) that starts at position i
CompactAt(text, i) ==
    IF DigitsAt(text, i, i + 7)
    THEN <<[year |-> IntOf(SubSeq(text, i, i + 3)),
            month |-> IntOf(SubSeq(text, i + 4, i + 5)),
            day |-> IntOf(SubSeq(text, i + 6, i + 7))]>>
    ELSE <<>>

\* re.search: the match at the leftmost position that has one
Search(text, At(_, _)) ==
    LET hits == {i \in 1..Len(text) : At(text, i) # <<>>}
    IN  IF hits = {} THEN <<>>
        ELSE At(text, CHOOSE i \in hits : \A j \in hits : i <= j)

\* the three date_patterns, in order
DateMatches(text) ==
    <<Search(text, LAMBDA t, i : SeparatedAt(t, i, {"Nian", "-", "/"}, {"Yue", "-", "/"})),
      Search(text, LAMBDA t, i : SeparatedAt(t, i, {"."}, {"."})),
      Search(text, CompactAt)>>

DaysInMonth(year, month) ==
    IF month \in {4, 6, 9, 11} THEN 30
    ELSE IF month # 2 THEN 31
    ELSE IF (year % 4 = 0 /\ year % 100 # 0) \/ year % 400 = 0 THEN 29
    ELSE 28

\* a faulty datetime(): every day up to 31 is taken in every month
DatetimeOkLax(d) ==
    /\ d.year >= 1
    /\ d.month >= 1 /\ d.month <= 12
    /\ d.day >= 1 /\ d.day <= 31

\* whether datetime(year, month, day) returns rather than raising ValueError
DatetimeOk(d) ==
    /\ d.year >= 1
    /\ d.month >= 1 /\ d.month <= 12
    /\ d.day >= 1 /\ d.day <= DaysInMonth(d.year, d.month)

\* helpers.parse_date: Optional, the date of the first pattern whose match is a date
ParseDate(text) ==
    IF text = <<>> THEN <<>>
    ELSE LET ms == DateMatches(Strip(text))
             good == {n \in 1..Len(ms) : ms[n] # <<>> /\ DatetimeOk(ms[n][1])}
         IN  IF good = {} THEN <<>>
             ELSE ms[CHOOSE n \in good : \A k \in good : n <= k]

----------------------------------------------------------------------------
(* HttpClient: _rate_limit, get and post, with the retry strategy that     *)
(* _setup_retry mounts on the session.  A caller is a thread that calls    *)
(* get() or post(); time passes between the steps.                         *)

Workers == {1, 2}

Methods == {"GET", "POST"}

\* Retry(status_forcelist=...) of _setup_retry
StatusForcelist == {429, 500, 502, 503, 504}

\* the statuses the retry strategy retries when the response carries Retry-After
\* (respect_retry_after_header is left at its default)
RetryAfterStatusCodes == {413, 429, 503}

StatusResponse(status, retryAfter) ==
    [kind |-> "status", status |-> status, retry_after |-> retryAfter]

ErrorResponse(kind) == [kind |-> kind, status |-> 0, retry_after |-> FALSE]

\* no attempt has ended yet
NoResponse == [kind |-> "none", status |-> 0, retry_after |-> FALSE]

\* what one attempt can end with before the timeout runs out
Answers ==
    {StatusResponse(200, FALSE), StatusResponse(404, FALSE), StatusResponse(413, TRUE),
     StatusResponse(503, FALSE), ErrorResponse("conn")}

\* whether the retry strategy, with `total` retries left, retries this response
IsRetry(resp, total) ==
    /\ resp.kind = "status"
    /\ \/ resp.status \in StatusForcelist
       \/ total # 0 /\ resp.retry_after /\ resp.status \in RetryAfterStatusCodes

\* a faulty retry strategy: one retry more than retry_times
AfterAttemptExtra(resp, total) ==
    IF resp.kind # "status" \/ IsRetry(resp, total)
    THEN IF total < 0 THEN "error" ELSE "retry"
    ELSE IF resp.status >= 400 THEN "error" ELSE "body"

\* what session.get / session.post and raise_for_status do after an attempt that ended
\* with resp when `total` retries are left: send again, return the body, or raise
AfterAttempt(resp, total) ==
    IF resp.kind # "status" \/ IsRetry(resp, total)
    THEN IF total - 1 < 0 THEN "error" ELSE "retry"
    ELSE IF resp.status >= 400 THEN "error" ELSE "body"

\* a step of a client of HttpClient leaves the rest of the program alone
HttpFrame ==
    /\ pc = "http"
    /\ UNCHANGED <<envVars, crawlVars, filterVars, clientVars, threadVars>>

\* the calls of get()/post() made so far
CallsMade ==
    Len(reqLog) + Cardinality({w \in Workers : hpc[w] \in {"rate_limit", "sleeping", "stamp"}})

\* caller w enters get() or post()
HttpCall(w) ==
    /\ HttpFrame
    /\ hpc[w] = "idle"
    /\ CallsMade < MaxRequests
    /\ \E m \in Methods :
           hloc' = [hloc EXCEPT ![w] = [method |-> m, wake |-> 0, total |-> retryTimes,
                                        t0 |-> 0, idx |-> 0, tries |-> 0,
                                        last |-> NoResponse]]
    /\ hpc' = [hpc EXCEPT ![w] = "rate_limit"]
    /\ UNCHANGED <<clock, delay, retryTimes, lastRequestTime, reqLog>>

\* _rate_limit: the test of the elapsed time
RateLimitCheck(w) ==
    /\ HttpFrame
    /\ hpc[w] = "rate_limit"
    /\ IF delay > 0 /\ clock - lastRequestTime < delay
       THEN /\ hloc' = [hloc EXCEPT ![w].wake = clock + (delay - (clock - lastRequestTime))]
            /\ hpc' = [hpc EXCEPT ![w] = "sleeping"]
       ELSE /\ hpc' = [hpc EXCEPT ![w] = "stamp"]
            /\ UNCHANGED hloc
    /\ UNCHANGED <<clock, delay, retryTimes, lastRequestTime, reqLog>>

\* _rate_limit: time.sleep(sleep_time) returns
RateLimitWake(w) ==
    /\ HttpFrame
    /\ hpc[w] = "sleeping"
    /\ clock >= hloc[w].wake
    /\ hpc' = [hpc EXCEPT ![w] = "stamp"]
    /\ UNCHANGED <<clock, delay, retryTimes, lastRequestTime, hloc, reqLog>>

\* _rate_limit writes _last_request_time and returns; the request goes to the session
RateLimitStamp(w) ==
    /\ HttpFrame
    /\ hpc[w] = "stamp"
    /\ lastRequestTime' = clock
    /\ hpc' = [hpc EXCEPT ![w] = "inflight"]
    /\ hloc' = [hloc EXCEPT ![w].t0 = clock, ![w].idx = Len(reqLog) + 1]
    /\ reqLog' = Append(reqLog, [worker |-> w, method |-> hloc[w].method, sent |-> clock,
                                  ended |-> <<>>, outcome |-> "pending"])
    /\ UNCHANGED <<clock, delay, retryTimes>>

\* an attempt of the running request ends, with an answer or, when the timeout has run
\* out, with a timeout; the session sends again, or get()/post() returns or raises
Respond(w) ==
    /\ HttpFrame
    /\ hpc[w] = "inflight"
    /\ \E resp \in Answers \cup {ErrorResponse("timeout")} :
           /\ resp.kind = "timeout" <=> clock - hloc[w].t0 >= HttpTimeout
           /\ LET next == AfterAttempt(resp, hloc[w].total)
              IN  IF next = "retry"
                  THEN /\ hloc' = [hloc EXCEPT ![w].total = @ - 1, ![w].t0 = clock,
                                               ![w].tries = @ + 1, ![w].last = resp]
                       /\ UNCHANGED <<hpc, reqLog>>
                  ELSE /\ hloc' = [hloc EXCEPT ![w].tries = @ + 1, ![w].last = resp]
                       /\ reqLog' = [reqLog EXCEPT ![hloc[w].idx].ended = <<clock>>,
                                                   ![hloc[w].idx].outcome = next]
                       /\ hpc' = [hpc EXCEPT ![w] = "idle"]
    /\ UNCHANGED <<clock, delay, retryTimes, lastRequestTime>>

\* a step of caller w
HttpStep(w) ==
    \/ HttpCall(w)
    \/ RateLimitCheck(w)
    \/ RateLimitWake(w)
    \/ RateLimitStamp(w)
    \/ Respond(w)

\* a tick of the clock: it cannot pass the moment the timeout of a running attempt runs
\* out, and it stops when nothing is waiting for it
Tick ==
    /\ HttpFrame
    /\ \A w \in Workers : hpc[w] = "inflight" => clock - hloc[w].t0 < HttpTimeout
    /\ \/ clock < MaxDelay + 1
       \/ \E w \in Workers : hpc[w] = "inflight" \/ (hpc[w] = "sleeping" /\ clock < hloc[w].wake)
    /\ clock' = clock + 1
    /\ UNCHANGED <<delay, retryTimes, lastRequestTime, hpc, hloc, reqLog>>

----------------------------------------------------------------------------
(* The inputs explored.                                                    *)

\* datetime.now() of the run: 2026-11-09, not at midnight
Today == 8 * TicksPerDay + 1

SiteNames == << <<"siteA">>, <<"siteB">> >>

ParserKeys == {"", "ccgp", "cebp", "nosuch"}

\* the websites section: one entry per name, enabled with any parser key, or disabled
\* (nothing reads the parser key of a disabled website)
WebsiteConfigs ==
    {ws \in [1..Len(SiteNames) -> [name : Range(SiteNames), url : Range(SiteNames),
                                  parser : ParserKeys, enabled : BOOLEAN,
                                  mapping : {TRUE}]] :
        \A i \in 1..Len(SiteNames) :
            /\ ws[i].name = SiteNames[i]
            /\ ws[i].url = SiteNames[i]
            /\ ~ws[i].enabled => ws[i].parser = "ccgp"}

\* a websites section whose first entry is a bare string instead of a mapping, which
\* ConfigManager.validate accepts
MalformedWebsites ==
    <<[name |-> SiteNames[1], url |-> SiteNames[1], parser |-> "ccgp", enabled |-> FALSE,
       mapping |-> FALSE],
      [name |-> SiteNames[2], url |-> SiteNames[2], parser |-> "ccgp", enabled |-> TRUE,
       mapping |-> TRUE]>>

DefaultFilters == [date_range |-> 7, min_amount |-> 0, max_amount |-> 0]

\* the industries section: two industries with one keyword each, "ab" and "b"
Industries ==
    <<[name |-> "ind1", keywords |-> << <<"a", "b">> >>, enabled |-> TRUE],
      [name |-> "ind2", keywords |-> << <<"b">> >>, enabled |-> TRUE]>>

KwA == <<"a">>
KwB == <<"B">>

\* list pages of the sites of a whole run
EnginePages == {<<>>, <<"ok", "extra", "ownsource">>, <<"nourl", "notitle", "extra">>}

\* --max-pages and crawler.max_pages: the option given, or the option left out and the
\* configured value an integer or not one
PageLimits ==
    {[arg |-> <<n>>, cfg |-> [int |-> TRUE, val |-> MaxPages]] : n \in 0..MaxPages}
    \cup {[arg |-> <<>>, cfg |-> [int |-> TRUE, val |-> MaxPages]],
          [arg |-> <<>>, cfg |-> [int |-> FALSE, val |-> 0]]}

IdleCrawl ==
    /\ exitCode = <<>>
    /\ session = "none"
    /\ closeCount = 0
    /\ parsers = NoParsers
    /\ regLog = <<>>
    /\ siteIdx = 0
    /\ allItems = <<>>
    /\ page = 0
    /\ maxPages = 0
    /\ curParser = <<>>
    /\ pageItems = <<>>
    /\ fetchLog = <<>>
    /\ siteLog = <<>>

IdleFilter ==
    /\ seen = {}
    /\ stats = NewStats(0)
    /\ result = <<>>
    /\ calls = <<>>
    /\ callLog = <<>>
    /\ epoch = 0
    /\ statsOut = <<>>

\* no HttpClient call is running; _last_request_time is the 0 of __init__ and the clock
\* is far from it
IdleHttp ==
    /\ clock = MaxDelay
    /\ lastRequestTime = 0
    /\ hpc = [w \in Workers |-> "idle"]
    /\ hloc = [w \in Workers |-> [method |-> "GET", wake |-> 0, total |-> 0, t0 |-> 0,
                                  idx |-> 0, tries |-> 0, last |-> NoResponse]]
    /\ reqLog = <<>>

\* the transport settings of the other clients: the defaults of HttpClient.__init__
DefaultHttp ==
    /\ delay = MaxDelay
    /\ retryTimes = MaxRetries
    /\ IdleHttp

\* the threads that may call filter() on one DataFilter
Threads == {1, 2}

\* the locals of a filter() call that has not started, on the list its(t)
NewCall(its) == [items |-> its, idx |-> 0, hash |-> <<>>, stats |-> NewStats(0),
                 result |-> <<>>]

\* no thread calls filter()
IdleThreads ==
    /\ tpc = [t \in Threads |-> "idle"]
    /\ tloc = [t \in Threads |-> NewCall(<<>>)]

IdleClient ==
    /\ seenOther = {}
    /\ otherLog = <<>>
    /\ rec = <<>>
    /\ trace = <<>>

\* main() has loaded its configuration and is about to build the engine
Init ==
    /\ \E ws \in WebsiteConfigs \cup {MalformedWebsites}, kws \in {<<>>, <<KwA>>, <<KwB>>}, lim \in PageLimits :
          /\ config = [websites |-> ws, tech_keywords |-> kws,
                       crawler |-> [max_pages |-> lim.cfg], filters |-> DefaultFilters,
                       industries |-> Industries]
          /\ args = [max_pages |-> lim.arg]
    /\ now = Today
    /\ served = EnginePages
    /\ pc = "start"
    /\ items = <<>>
    /\ IdleCrawl
    /\ IdleFilter
    /\ IdleThreads
    /\ DefaultHttp
    /\ IdleClient

Next ==
    \/ EngineInit
    \/ CrawlAllBegin
    \/ CrawlWebsite
    \/ FetchAllStep
    \/ CrawlAllEnd
    \/ MainAfterCrawl
    \/ MainFilter
    \/ MainStatistics
    \/ MainReport
    \/ Interrupt

Spec == Init /\ [][Next]_vars

\* the loop of fetch_all is not suspended for ever: fetch_list comes back (the transport
\* gives up after its timeout and its retries) and the loop goes on
SpecLive == Spec /\ WF_vars(FetchAllStep)

----------------------------------------------------------------------------
(* The inputs of a DataFilter driven by a client.                          *)

Midnight(day) == day * TicksPerDay

TitleA == CrawlTitle
TitleB == <<"A", "b", "x", "x", "x">>
TitleX == <<"x", "x", "x", "x", "x">>
TitleShort == <<"a", "x", "x", "x">>

Url1 == <<"siteA", 1, 1>>
Url2 == <<"siteB", 1, 2>>
SourceA == <<"siteA">>
SourceB == <<"siteB">>

PurchaserA == <<"A", "b">>
PurchaserB == <<"b", "b">>

\* candidate records: complete ones that differ in title, in url and source only, in
\* date and purchaser, in budget; and ones that miss a required field
FilterPool ==
    {NewBidInfo(t, Url1, SourceA, <<>>, <<>>, <<>>) : t \in {TitleA, TitleB, TitleShort}}
    \cup {[NewBidInfo(TitleX, Url1, SourceA, <<>>, <<>>, <<>>)
               EXCEPT !.matched_keywords = <<KwA>>],
          NewBidInfo(TitleA, Url2, SourceB, <<>>, <<>>, <<>>),
          NewBidInfo(TitleA, <<>>, SourceA, <<>>, <<>>, <<>>),
          NewBidInfo(TitleA, Url1, SourceA, <<Today - TicksPerDay>>, PurchaserA, <<>>),
          NewBidInfo(TitleA, Url1, SourceA, <<Today - TicksPerDay - 1>>, PurchaserB, <<>>)}
    \cup {NewBidInfo(TitleA, Url1, SourceA, <<>>, <<>>, <<b>>) : b \in {0, 5, 50}}

FilterConfigs ==
    {[websites |-> <<>>, tech_keywords |-> kws, crawler |-> [max_pages |-> <<>>],
      filters |-> [date_range |-> dr, min_amount |-> am[1], max_amount |-> am[2]],
      industries |-> IF am[1] = 0 THEN <<>> ELSE Industries] :
        kws \in {<<>>, <<KwA, KwB>>}, dr \in {0, 1}, am \in {<<0, 0>>, <<10, 20>>}}

\* a client holds a DataFilter it has just constructed and a candidate list
InitFilter ==
    /\ config \in FilterConfigs
    /\ args = [max_pages |-> <<>>]
    /\ now = Today
    /\ served = {}
    /\ pc = "api"
    /\ items \in SeqsUpTo(FilterPool, MaxItems)
    /\ IdleCrawl
    /\ IdleFilter
    /\ IdleThreads
    /\ DefaultHttp
    /\ IdleClient

NextFilter ==
    \/ ApiFilter
    \/ Reset
    \/ ApiGetStatistics

SpecFilter == InitFilter /\ [][NextFilter]_vars

----------------------------------------------------------------------------
(* Candidates whose unique_str meet.                                       *)
(* A client that filters records in which a "_" of the title stands where  *)
(* calculate_hash puts its separator.                                      *)

\* TitleB followed by "_" and the text calculate_hash would append for a purchaser or
\* for a publish date
TitleWithPurchaser == TitleB \o <<"_">> \o PurchaserA
TitleWithDay == TitleB \o <<"_">> \o StrfDay(Midnight(7))

\* complete records: the plain title with a purchaser, with a date, with neither, and
\* the two longer titles with neither
KeyPool ==
    {NewBidInfo(TitleB, Url1, SourceA, <<>>, PurchaserA, <<>>),
     NewBidInfo(TitleB, Url1, SourceA, <<Midnight(7)>>, <<>>, <<>>),
     NewBidInfo(TitleB, Url1, SourceA, <<>>, <<>>, <<>>),
     NewBidInfo(TitleWithPurchaser, Url2, SourceB, <<>>, <<>>, <<>>),
     NewBidInfo(TitleWithDay, Url2, SourceB, <<>>, <<>>, <<>>)}

\* a client holds a DataFilter with no keyword, date, amount or industry setting and a
\* candidate list
InitKeys ==
    /\ config \in {c \in FilterConfigs : /\ c.tech_keywords = <<>>
                                         /\ c.industries = <<>>
                                         /\ c.filters.date_range = 0}
    /\ args = [max_pages |-> <<>>]
    /\ now = Today
    /\ served = {}
    /\ pc = "api"
    /\ items \in SeqsUpTo(KeyPool, MaxItems)
    /\ IdleCrawl
    /\ IdleFilter
    /\ IdleThreads
    /\ DefaultHttp
    /\ IdleClient

NextKeys ==
    \/ ApiFilter
    \/ Reset
    \/ ApiGetStatistics

SpecKeys == InitKeys /\ [][NextKeys]_vars

----------------------------------------------------------------------------
(* Two threads call filter() on one DataFilter.                            *)
(* The class holds no lock; a thread may be suspended between any two      *)
(* statements of filter() and _check_duplicate. The steps below are the    *)
(* statements that read or write _seen_hashes, and the thread-local code   *)
(* between them.                                                           *)

\* the rest of one iteration of the loop of filter(), after _check_duplicate accepted
\* the candidate: [item, verdict]
StagesAfterDuplicate(r, cfg, nowT) ==
    LET k == MatchKeywordsStage(r, cfg)
    IN  IF ~k.ok THEN [item |-> k.item, verdict |-> "no_keywords"]
        ELSE IF ~CheckDateRange(k.item, cfg, nowT)
        THEN [item |-> k.item, verdict |-> "out_of_date"]
        ELSE IF ~CheckAmountRange(k.item, cfg)
        THEN [item |-> k.item, verdict |-> "out_of_amount"]
        ELSE [item |-> ClassifyIndustryStage(k.item, cfg), verdict |-> "passed"]

\* what a step of a thread leaves alone: everything but _seen_hashes and the threads
ThreadFrame ==
    /\ pc = "threads"
    /\ UNCHANGED <<items, stats, result, calls, callLog, epoch, statsOut>>
    /\ UNCHANGED <<envVars, httpVars, crawlVars, clientVars>>

\* filter(items) is entered: `if not items: return []`, else the locals are set up
ThreadCall(t) ==
    /\ tpc[t] = "idle"
    /\ IF tloc[t].items = <<>>
       THEN /\ tpc' = [tpc EXCEPT ![t] = "done"]
            /\ UNCHANGED tloc
       ELSE /\ tpc' = [tpc EXCEPT ![t] = "loop"]
            /\ tloc' = [tloc EXCEPT ![t].stats = NewStats(Len(tloc[t].items))]
    /\ UNCHANGED seen
    /\ ThreadFrame

\* a faulty loop: an invalid candidate is skipped without being counted
ThreadLoopUncounted(t) ==
    /\ tpc[t] = "loop"
    /\ IF tloc[t].idx = Len(tloc[t].items)
       THEN /\ tpc' = [tpc EXCEPT ![t] = "done"]
            /\ UNCHANGED tloc
       ELSE LET n == tloc[t].idx + 1
                r == tloc[t].items[n]
                h == CalculateHash(r)
            IN  IF ~IsValid(r)
                THEN /\ tloc' = [tloc EXCEPT ![t].idx = n]
                     /\ UNCHANGED tpc
                ELSE /\ tloc' = [tloc EXCEPT ![t].idx = n, ![t].items[n] = h.item,
                                             ![t].hash = <<h.value>>]
                     /\ tpc' = [tpc EXCEPT ![t] = "test"]
    /\ UNCHANGED seen
    /\ ThreadFrame

\* `for item in items`: the loop ends and filter() returns, or the next candidate is
\* tested with is_valid() and, if valid, _check_duplicate computes its hash
ThreadLoop(t) ==
    /\ tpc[t] = "loop"
    /\ IF tloc[t].idx = Len(tloc[t].items)
       THEN /\ tpc' = [tpc EXCEPT ![t] = "done"]
            /\ UNCHANGED tloc
       ELSE LET n == tloc[t].idx + 1
                r == tloc[t].items[n]
                h == CalculateHash(r)
            IN  IF ~IsValid(r)
                THEN /\ tloc' = [tloc EXCEPT ![t].idx = n, ![t].stats["invalid"] = @ + 1]
                     /\ UNCHANGED tpc
                ELSE /\ tloc' = [tloc EXCEPT ![t].idx = n, ![t].items[n] = h.item,
                                             ![t].hash = <<h.value>>]
                     /\ tpc' = [tpc EXCEPT ![t] = "test"]
    /\ UNCHANGED seen
    /\ ThreadFrame

\* _check_duplicate: `if hash_value in self._seen_hashes: return False`
ThreadTest(t) ==
    /\ tpc[t] = "test"
    /\ IF tloc[t].hash[1] \in seen
       THEN /\ tloc' = [tloc EXCEPT ![t].stats["duplicate"] = @ + 1]
            /\ tpc' = [tpc EXCEPT ![t] = "loop"]
       ELSE /\ tpc' = [tpc EXCEPT ![t] = "add"]
            /\ UNCHANGED tloc
    /\ UNCHANGED seen
    /\ ThreadFrame

\* _check_duplicate: `self._seen_hashes.add(hash_value)`, `return True`
ThreadAdd(t) ==
    /\ tpc[t] = "add"
    /\ seen' = seen \cup {tloc[t].hash[1]}
    /\ tpc' = [tpc EXCEPT ![t] = "stages"]
    /\ UNCHANGED tloc
    /\ ThreadFrame

\* the keyword, date and amount checks, the classification, and the counting
ThreadStages(t) ==
    /\ tpc[t] = "stages"
    /\ LET n == tloc[t].idx
           out == StagesAfterDuplicate(tloc[t].items[n], config, now)
       IN  tloc' = [tloc EXCEPT ![t].items[n] = out.item,
                                ![t].stats[out.verdict] = @ + 1,
                                ![t].result = IF out.verdict = "passed"
                                              THEN Append(@, n) ELSE @]
    /\ tpc' = [tpc EXCEPT ![t] = "loop"]
    /\ UNCHANGED seen
    /\ ThreadFrame

\* candidates of the threads: two complete records with one title, date and purchaser
\* that differ in url and source, a complete record with another title, an invalid one
ThreadPool ==
    {NewBidInfo(TitleA, Url1, SourceA, <<>>, <<>>, <<>>),
     NewBidInfo(TitleA, Url2, SourceB, <<>>, <<>>, <<>>),
     NewBidInfo(TitleB, Url1, SourceA, <<>>, <<>>, <<>>),
     NewBidInfo(TitleShort, Url1, SourceA, <<>>, <<>>, <<>>)}

\* one DataFilter has been constructed and each thread holds a candidate list
InitThreads ==
    /\ config \in {c \in FilterConfigs : c.industries = <<>> /\ c.filters.date_range = 0}
    /\ args = [max_pages |-> <<>>]
    /\ now = Today
    /\ served = {}
    /\ pc = "threads"
    /\ items = <<>>
    /\ IdleCrawl
    /\ IdleFilter
    /\ DefaultHttp
    /\ IdleClient
    /\ tpc = [t \in Threads |-> "idle"]
    /\ \E its \in [Threads -> SeqsUpTo(ThreadPool, MaxItems)] :
           tloc = [t \in Threads |-> NewCall(its[t])]

NextThreads ==
    \/ \E t \in Threads : ThreadCall(t)
    \/ \E t \in Threads : ThreadLoop(t)
    \/ \E t \in Threads : ThreadTest(t)
    \/ \E t \in Threads : ThreadAdd(t)
    \/ \E t \in Threads : ThreadStages(t)

SpecThreads == InitThreads /\ [][NextThreads]_vars

----------------------------------------------------------------------------
(* A client that holds two DataFilter instances and one candidate list.    *)

InstancePool ==
    {NewBidInfo(t, Url1, SourceA, <<>>, <<>>, <<>>) : t \in {TitleA, TitleB, TitleShort}}
    \cup {NewBidInfo(TitleA, Url2, SourceB, <<>>, <<>>, <<>>)}

InstanceConfigs ==
    {c \in FilterConfigs : c.filters.date_range = 0 /\ c.filters.min_amount = 0}

InitInstances ==
    /\ config \in InstanceConfigs
    /\ args = [max_pages |-> <<>>]
    /\ now = Today
    /\ served = {}
    /\ pc = "api"
    /\ items \in SeqsUpTo(InstancePool, MaxItems)
    /\ IdleCrawl
    /\ IdleFilter
    /\ IdleThreads
    /\ DefaultHttp
    /\ IdleClient

NextInstances ==
    \/ ApiFilter
    \/ ApiFilterOther
    \/ Reset
    \/ ApiGetStatistics

SpecInstances == InitInstances /\ [][NextInstances]_vars

----------------------------------------------------------------------------
(* A client that calls parse_amount and parse_date, and hands a record     *)
(* whose budget parse_amount gave to the amount stage of a DataFilter with *)
(* min_amount = 10.                                                        *)

\* numbers as they are written, with their value in hundredths
AmountNumbers ==
    {[text |-> <<"1", ".", "5">>, cents |-> 150],
     [text |-> <<"1", "0", "0">>, cents |-> 10000],
     [text |-> <<"4", "0">>, cents |-> 4000],
     [text |-> <<"1", ",", "0", "0", "0">>, cents |-> 100000]}

\* what follows the number: nothing, 亿元, 万元, 万, 千 or 元
UnitSuffixes ==
    {<<>>, <<"Yi", "Yuan">>, <<"Wan", "Yuan">>, <<"Wan">>, <<"Qian">>, <<"Yuan">>}

\* texts without a number: empty, blank, letters, a lone dot, a unit alone
NumberFreeTexts == {<<>>, <<" ">>, <<"x", "x">>, <<".">>, <<"Wan", "Yuan">>}

\* "1.5亿元" and "50000元"
StageTexts == {<<"1", ".", "5", "Yi", "Yuan">>, <<"5", "0", "0", "0", "0", "Yuan">>}

AmountTexts ==
    {n.text \o u : n \in AmountNumbers, u \in UnitSuffixes} \cup NumberFreeTexts
    \cup StageTexts

\* year, month and day as they are written, with their values
DateParts ==
    {[y |-> <<"2", "0", "2", "4">>, m |-> <<"0", "1">>, d |-> <<"1", "5">>,
      year |-> 2024, month |-> 1, day |-> 15],
     [y |-> <<"2", "0", "2", "4">>, m |-> <<"2">>, d |-> <<"2", "9">>,
      year |-> 2024, month |-> 2, day |-> 29],
     [y |-> <<"2", "0", "2", "3">>, m |-> <<"0", "2">>, d |-> <<"2", "9">>,
      year |-> 2023, month |-> 2, day |-> 29],
     [y |-> <<"2", "0", "2", "4">>, m |-> <<"1", "3">>, d |-> <<"4", "5">>,
      year |-> 2024, month |-> 13, day |-> 45],
     [y |-> <<"2", "0", "2", "4">>, m |-> <<"0", "4">>, d |-> <<"3", "1">>,
      year |-> 2024, month |-> 4, day |-> 31]}

DateFormats == {"dash", "slash", "cn"}

\* the date written as YYYY-MM-DD, YYYY/MM/DD or YYYY年MM月DD日
WrittenDate(p, f) ==
    IF f = "dash" THEN p.y \o <<"-">> \o p.m \o <<"-">> \o p.d
    ELSE IF f = "slash" THEN p.y \o <<"/">> \o p.m \o <<"/">> \o p.d
    ELSE p.y \o <<"Nian">> \o p.m \o <<"Yue">> \o p.d \o <<"Ri">>

\* texts without a date pattern
DateFreeTexts == {<<>>, <<"x", "x">>, <<"2", "0", "2", "4">>}

DateTexts ==
    {WrittenDate(p, f) : p \in DateParts, f \in DateFormats}
    \cup {<<" ", "x">> \o WrittenDate(p, "dash") \o <<"x", " ">> : p \in DateParts}
    \cup DateFreeTexts

\* the client appends a call of a helper to its trace
TracedHelper(op, arg, ret) ==
    /\ pc = "helpers"
    /\ Len(trace) < MaxCalls
    /\ trace' = Append(trace, [op |-> op, arg |-> arg, on |-> <<>>, ret |-> ret])
    /\ UNCHANGED <<seenOther, otherLog, rec>>
    /\ UNCHANGED <<envVars, httpVars, threadVars, crawlVars, filterVars>>

\* parse_amount(text)
HelperParseAmount ==
    \E text \in AmountTexts : TracedHelper("parse_amount", text, ParseAmount(text))

\* parse_date(text)
HelperParseDate ==
    \E text \in DateTexts : TracedHelper("parse_date", text, ParseDate(text))

\* _check_amount_range on a record whose budget is parse_amount(text)
AmountStageOnParsed ==
    \E text \in StageTexts :
        TracedHelper("_check_amount_range", text,
                     CheckAmountRange(NewBidInfo(TitleA, Url1, SourceA, <<>>, <<>>,
                                                 ParseAmount(text)), config))

InitHelpers ==
    /\ config = [websites |-> <<>>, tech_keywords |-> <<>>, crawler |-> [max_pages |-> <<>>],
                 filters |-> [date_range |-> 0, min_amount |-> 10 * AmountScale,
                              max_amount |-> 0],
                 industries |-> <<>>]
    /\ args = [max_pages |-> <<>>]
    /\ now = Today
    /\ served = {}
    /\ pc = "helpers"
    /\ items = <<>>
    /\ IdleCrawl
    /\ IdleFilter
    /\ IdleThreads
    /\ DefaultHttp
    /\ IdleClient

NextHelpers ==
    \/ HelperParseAmount
    \/ HelperParseDate
    \/ AmountStageOnParsed

SpecHelpers == InitHelpers /\ [][NextHelpers]_vars

----------------------------------------------------------------------------
(* HttpClient.get: the text it returns for a response that came back with  *)
(* status 200.  A body is given by what a strict decoding of its bytes     *)
(* yields per encoding (nothing when it raises UnicodeDecodeError) and by  *)
(* what the decoding with errors="replace" yields.                         *)

Encodings == {"utf-8", "gbk", "gb2312", "ISO-8859-1"}

\* the list `encodings` of get()
EncodingsTried == <<"utf-8", "gbk", "gb2312">>

\* the bytes 6f 6b
BodyAscii ==
    [strict |-> [e \in Encodings |-> << <<"o", "k">> >>],
     replaced |-> [e \in Encodings |-> <<"o", "k">>]]

\* the bytes e6 8b 9b e6 a0 87: "Zhao Biao" in UTF-8
BodyUtf8 ==
    [strict |-> [e \in Encodings |->
                    CASE e = "utf-8" -> << <<"Zhao", "Biao">> >>
                      [] e = "gbk" -> << <<"U+93B7", "U+6D99", "U+7223">> >>
                      [] e = "gb2312" -> <<>>
                      [] e = "ISO-8859-1" -> << <<"xE6", "x8B", "x9B", "xE6", "xA0", "x87">> >>],
     replaced |-> [e \in Encodings |->
                    CASE e = "utf-8" -> <<"Zhao", "Biao">>
                      [] e = "gbk" -> <<"U+93B7", "U+6D99", "U+7223">>
                      [] e = "gb2312" -> <<"U+FFFD", "U+FFFD", "U+FFFD", "U+FFFD", "U+FFFD",
                                           "U+FFFD">>
                      [] e = "ISO-8859-1" -> <<"xE6", "x8B", "x9B", "xE6", "xA0", "x87">>]]

\* the bytes d5 d0 b1 ea: "Zhao Biao" in GBK and in GB2312, no UTF-8
BodyGbk ==
    [strict |-> [e \in Encodings |->
                    CASE e = "utf-8" -> <<>>
                      [] e = "gbk" -> << <<"Zhao", "Biao">> >>
                      [] e = "gb2312" -> << <<"Zhao", "Biao">> >>
                      [] e = "ISO-8859-1" -> << <<"xD5", "xD0", "xB1", "xEA">> >>],
     replaced |-> [e \in Encodings |->
                    CASE e = "utf-8" -> <<"U+FFFD", "U+0431", "U+FFFD">>
                      [] e = "gbk" -> <<"Zhao", "Biao">>
                      [] e = "gb2312" -> <<"Zhao", "Biao">>
                      [] e = "ISO-8859-1" -> <<"xD5", "xD0", "xB1", "xEA">>]]

\* the bytes e9 46 bb f9: "Rong Ji" in GBK, neither UTF-8 nor GB2312
BodyGbkOnly ==
    [strict |-> [e \in Encodings |->
                    CASE e = "utf-8" -> <<>>
                      [] e = "gbk" -> << <<"Rong", "Ji">> >>
                      [] e = "gb2312" -> <<>>
                      [] e = "ISO-8859-1" -> << <<"xE9", "F", "xBB", "xF9">> >>],
     replaced |-> [e \in Encodings |->
                    CASE e = "utf-8" -> <<"U+FFFD", "F", "U+FFFD", "U+FFFD">>
                      [] e = "gbk" -> <<"Rong", "Ji">>
                      [] e = "gb2312" -> <<"U+FFFD", "F", "Ji">>
                      [] e = "ISO-8859-1" -> <<"xE9", "F", "xBB", "xF9">>]]

Bodies == {BodyAscii, BodyUtf8, BodyGbk, BodyGbkOnly}

\* Response.text of requests: str(self.content, encoding, errors="replace")
ResponseText(body, enc) == body.replaced[enc]

\* whether `_ = response.text` raises UnicodeDecodeError or LookupError: the decoding
\* replaces what it cannot decode, and the three names are known codecs
TextRaises(body, enc) == FALSE

\* the loop `for encoding in encodings`: response.encoding when it is left, having
\* started with `cur` and being at position i of the list
RECURSIVE TryEncodings(_, _, _)
TryEncodings(body, cur, i) ==
    IF i > Len(EncodingsTried) THEN cur
    ELSE IF TextRaises(body, EncodingsTried[i])
    THEN TryEncodings(body, EncodingsTried[i], i + 1)
    ELSE EncodingsTried[i]

\* what get() returns for a response with this body and this response.encoding
GetText(resp) ==
    LET enc == IF resp.encoding = "ISO-8859-1"
               THEN TryEncodings(resp.body, resp.encoding, 1)
               ELSE resp.encoding
    IN  ResponseText(resp.body, enc)

\* a client calls get() and the server answers 200 with one of the bodies, declaring an
\* encoding or none (requests then reports ISO-8859-1 for text/*)
HttpGetText ==
    /\ pc = "decode"
    /\ Len(trace) < MaxCalls
    /\ \E body \in Bodies, declared \in {"ISO-8859-1", "utf-8", "gbk"} :
           LET resp == [body |-> body, encoding |-> declared]
           IN  trace' = Append(trace, [op |-> "get", arg |-> resp, on |-> <<>>,
                                       ret |-> GetText(resp)])
    /\ UNCHANGED <<seenOther, otherLog, rec>>
    /\ UNCHANGED <<envVars, httpVars, threadVars, crawlVars, filterVars>>

InitDecode ==
    /\ config \in {c \in FilterConfigs : c.tech_keywords = <<>> /\ c.industries = <<>>
                                        /\ c.filters.date_range = 0}
    /\ args = [max_pages |-> <<>>]
    /\ now = Today
    /\ served = {}
    /\ pc = "decode"
    /\ items = <<>>
    /\ IdleCrawl
    /\ IdleFilter
    /\ IdleThreads
    /\ DefaultHttp
    /\ IdleClient

NextDecode == HttpGetText

SpecDecode == InitDecode /\ [][NextDecode]_vars

----------------------------------------------------------------------------
(* A client that calls get() and post() of one HttpClient, one call after  *)
(* the other, and two workers that share one HttpClient.                   *)

InitHttp ==
    /\ config \in {c \in FilterConfigs : c.tech_keywords = <<>> /\ c.industries = <<>>
                                        /\ c.filters.date_range = 0
                                        /\ c.filters.min_amount = 0}
    /\ args = [max_pages |-> <<>>]
    /\ now = Today
    /\ served = {}
    /\ pc = "http"
    /\ items = <<>>
    /\ IdleCrawl
    /\ IdleFilter
    /\ IdleThreads
    /\ IdleClient
    /\ delay \in {0, MaxDelay}
    /\ retryTimes \in 0..MaxRetries
    /\ IdleHttp

NextHttp ==
    \/ HttpStep(1)
    \/ Tick

SpecHttp == InitHttp /\ [][NextHttp]_vars

\* every started step of a call is taken in the end, and time goes on
SpecHttpLive == SpecHttp /\ WF_vars(Tick) /\ WF_vars(HttpStep(1) /\ hpc[1] # "idle")

NextWorkers ==
    \/ \E w \in Workers : HttpStep(w)
    \/ Tick

SpecWorkers == InitHttp /\ [][NextWorkers]_vars

----------------------------------------------------------------------------
(* A client that holds one BidInfo and calls its methods, and the hash     *)
(* helper, directly.                                                       *)

TitleOfLen(n) == [i \in 1..n |-> "x"]

BidTitles ==
    {<<>>, TitleOfLen(MinTitleLen - 1), TitleOfLen(MinTitleLen), TitleB, CollisionA,
     CollisionB}

\* the records the client may hold: short and colliding titles with or without url,
\* source, date and purchaser, and complete records with titles around the upper limit
BidPool ==
    {NewBidInfo(t, us[1], us[2], dp[1], dp[2], <<>>) :
        t \in BidTitles,
        us \in {<<Url1, SourceA>>, <<(<<>>), SourceA>>, <<Url1, (<<>>)>>},
        dp \in {<<(<<>>), (<<>>)>>, <<(<<>>), PurchaserA>>, <<(<<Midnight(8)>>), PurchaserA>>}}
    \cup {NewBidInfo(TitleOfLen(n), Url1, SourceA, <<>>, <<>>, <<>>) :
              n \in {MaxTitleLen, MaxTitleLen + 1}}

KeywordLists == {<<>>, <<KwA, KwB>>, <<<<"B">>, <<"x", "a">>>>}

HelperTexts == {<<>>, TitleB, CollisionA, CollisionB}

\* the client appends a call to its trace
Traced(op, arg, ret) ==
    /\ pc = "bid"
    /\ Len(trace) < MaxCalls
    /\ trace' = Append(trace, [op |-> op, arg |-> arg, on |-> rec[1], ret |-> ret])
    /\ UNCHANGED <<seenOther, otherLog>>
    /\ UNCHANGED <<envVars, httpVars, threadVars, crawlVars, filterVars>>

\* rec.is_valid()
BidIsValid ==
    /\ Traced("is_valid", <<>>, IsValid(rec[1]))
    /\ UNCHANGED rec

\* rec.calculate_hash()
BidCalculateHash ==
    /\ Traced("calculate_hash", <<>>, CalculateHash(rec[1]).value)
    /\ rec' = <<CalculateHash(rec[1]).item>>

\* rec.match_keywords(keywords)
BidMatchKeywords ==
    \E keywords \in KeywordLists :
        /\ Traced("match_keywords", keywords, MatchKeywords(rec[1], keywords).ok)
        /\ rec' = <<MatchKeywords(rec[1], keywords).item>>

\* rec.classify_industry(industries): returns the industry it stamped, or None
BidClassifyIndustry ==
    \E industries \in {<<>>, Industries} :
        LET out == IF industries = <<>> THEN rec[1] ELSE ClassifyIndustry(rec[1], industries)
        IN  /\ Traced("classify_industry", industries,
                      IF out = rec[1] THEN <<>> ELSE out.industry)
            /\ rec' = <<out>>

\* the client assigns rec.url
BidSetUrl ==
    \E u \in {Url1, Url2} \ {rec[1].url} :
        /\ Traced("set_url", u, <<>>)
        /\ rec' = <<[rec[1] EXCEPT !.url = u]>>

\* helpers.calculate_hash(text)
HelperCalculateHash ==
    \E text \in HelperTexts :
        /\ Traced("helpers.calculate_hash", text, Md5Hex(text))
        /\ UNCHANGED rec

InitBidInfo ==
    /\ config \in {c \in FilterConfigs : c.tech_keywords = <<>> /\ c.industries = <<>>
                                        /\ c.filters.date_range = 0}
    /\ args = [max_pages |-> <<>>]
    /\ now = Today
    /\ served = {}
    /\ pc = "bid"
    /\ items = <<>>
    /\ IdleCrawl
    /\ IdleFilter
    /\ IdleThreads
    /\ DefaultHttp
    /\ seenOther = {}
    /\ otherLog = <<>>
    /\ rec \in {<<r>> : r \in BidPool}
    /\ trace = <<>>

NextBidInfo ==
    \/ BidIsValid
    \/ BidCalculateHash
    \/ BidMatchKeywords
    \/ BidClassifyIndustry
    \/ BidSetUrl
    \/ HelperCalculateHash

SpecBidInfo == InitBidInfo /\ [][NextBidInfo]_vars

----------------------------------------------------------------------------
(* The properties of DataFilter.                                           *)

\* the fingerprint of a record
Fingerprint(r) == CalculateHash(r).value

\* the positions the call logged as c accepted
Accepted(c) == Range(c.result)

\* the fingerprints the call logged as c added to _seen_hashes
Added(c) == c.after \ c.before

\* C1: among the calls of filter() on one list with no reset() between them, no two
\* accepted records (of one call or of two) have the same fingerprint, and a later
\* call accepts no record whose fingerprint an earlier call inserted.
C1_DedupAcrossCalls ==
    \A i \in 1..Len(callLog) : \A j \in i..Len(callLog) :
        callLog[i].epoch = callLog[j].epoch =>
            /\ \A k \in Accepted(callLog[i]) : \A l \in Accepted(callLog[j]) :
                   (i # j \/ k # l) =>
                       Fingerprint(callLog[i].records[k]) # Fingerprint(callLog[j].records[l])
            /\ i < j =>
                   \A l \in Accepted(callLog[j]) :
                       Fingerprint(callLog[j].records[l]) \notin Added(callLog[i])

\* filter() has run twice on the list with no reset() between, and the first run accepted
\* a record and inserted its fingerprint
C1_Witness ==
    /\ Len(callLog) = 2
    /\ callLog[1].epoch = callLog[2].epoch
    /\ callLog[1].input # <<>>
    /\ callLog[2].input = callLog[1].records
    /\ Accepted(callLog[1]) # {}
    /\ Added(callLog[1]) # {}

\* C6: a call of filter() adds to _seen_hashes only fingerprints of valid records of its
\* input, and it never computes the fingerprint of a record that fails validity.
C6_OnlyValidFingerprints ==
    \A i \in 1..Len(callLog) :
        LET c == callLog[i]
            valid == {k \in 1..Len(c.input) : IsValid(c.input[k])}
        IN  /\ Added(c) \subseteq {Fingerprint(c.input[k]) : k \in valid}
            /\ \A k \in 1..Len(c.input) :
                   k \notin valid =>
                       /\ c.records[k] = c.input[k]
                       /\ (Fingerprint(c.input[k]) \in c.after
                              => \/ Fingerprint(c.input[k]) \in c.before
                                 \/ \E m \in valid :
                                       Fingerprint(c.input[m]) = Fingerprint(c.input[k]))

\* a call whose input held a record failing validity, with a fingerprint of its own, and
\* a valid record whose fingerprint the call inserted
C6_Witness ==
    \E i \in 1..Len(callLog) :
        LET c == callLog[i]
        IN  /\ \E k \in 1..Len(c.input) :
                   ~IsValid(c.input[k]) /\ Fingerprint(c.input[k]) \notin c.after
            /\ Added(c) # {}

\* the stages of filter(), in the order the claim gives them
StageOrder ==
    <<"is_valid", "_check_duplicate", "_match_keywords", "_check_date_range",
      "_check_amount_range", "_classify_industry">>

\* the counter of the rejections of each stage, and of the candidates that pass them all
CounterOf ==
    <<"invalid", "duplicate", "no_keywords", "out_of_date", "out_of_amount", "passed",
      "passed">>

\* whether candidate k of the input `inp` of a call that began with the fingerprints
\* `before` fails stage s, taken by itself
FailsStage(inp, before, k, s) ==
    CASE s = 1 -> ~IsValid(inp[k])
      [] s = 2 -> Fingerprint(inp[k]) \in
                      before \cup {Fingerprint(inp[m]) :
                                      m \in {n \in 1..(k - 1) : IsValid(inp[n])}}
      [] s = 3 -> /\ GetKeywords(config) # <<>>
                  /\ \A i \in 1..Len(GetKeywords(config)) :
                         ~IsSubstr(Lower(GetKeywords(config)[i]), Lower(inp[k].title))
      [] s = 4 -> /\ config.filters.date_range > 0
                  /\ inp[k].publish_date # <<>>
                  /\ inp[k].publish_date[1] < now - config.filters.date_range * TicksPerDay
      [] s = 5 -> /\ inp[k].budget \notin {<<>>, <<0>>}
                  /\ \/ config.filters.min_amount > 0
                         /\ inp[k].budget[1] < config.filters.min_amount
                     \/ config.filters.max_amount > 0
                         /\ inp[k].budget[1] > config.filters.max_amount
      [] OTHER -> FALSE

\* the first stage candidate k fails, 7 when it fails none
FirstFailing(inp, before, k) ==
    LET failing == {s \in 1..5 : FailsStage(inp, before, k, s)}
    IN  IF failing = {} THEN 7 ELSE CHOOSE s \in failing : \A t \in failing : s <= t

\* C7: the last call of filter() took every candidate through the stages validity,
\* duplicate, keywords, date, amount, classification in that order up to the first stage
\* it fails and through no stage after it; the candidate is counted by the counter of
\* that stage alone, is returned only when it fails none, and carries no field written
\* by a stage after the failing one.
C7_StagesInOrder ==
    callLog # <<>> =>
        LET inp == callLog[Len(callLog)].input
            before == callLog[Len(callLog)].before
            first(k) == FirstFailing(inp, before, k)
        IN  /\ Len(calls) = Len(inp)
            /\ \A k \in 1..Len(inp) :
                   /\ calls[k] = SubSeq(StageOrder, 1, IF first(k) = 7 THEN 6 ELSE first(k))
                   /\ first(k) < 2 => items[k].content_hash = inp[k].content_hash
                   /\ first(k) < 4 => items[k].matched_keywords = inp[k].matched_keywords
                   /\ first(k) < 7 => items[k].industry = inp[k].industry
                   /\ (\E n \in 1..Len(result) : result[n] = k) <=> first(k) = 7
            /\ \A c \in Counters :
                   stats[c] = Cardinality({k \in 1..Len(inp) : CounterOf[first(k)] = c})
            /\ stats["total"] = Len(inp)
            /\ \A m, n \in 1..Len(result) : m < n => result[m] < result[n]

\* the last call rejected one candidate at the keyword stage and another at the amount
\* stage
C7_Witness ==
    /\ callLog # <<>>
    /\ \E k, m \in 1..Len(calls) :
           /\ calls[k] = SubSeq(StageOrder, 1, 3)
           /\ calls[m] = SubSeq(StageOrder, 1, 5)
    /\ stats["no_keywords"] = 1
    /\ stats["out_of_amount"] = 1

----------------------------------------------------------------------------
(* The properties of the crawl.                                            *)

\* the fetch_list calls of the crawl_website call on website `site`, in order
SiteFetches(site) == SelectSeq(fetchLog, LAMBDA e : e.site = site)

\* the records of the fetch_list calls fs, concatenated
Collected(fs) == Concat([i \in 1..Len(fs) |-> fs[i].items])

\* the crawl_website calls that ended, for website `site`
SiteEnds(site) == SelectSeq(siteLog, LAMBDA e : e.site = site)

\* crawl_all went through its loop and returned, and main() is still in the with block
CrawlAllReturned ==
    /\ pc \in {"crawled", "filter", "stats", "report"}
    /\ GetWebsites(config) # <<>>
    /\ GetKeywords(config) # <<>>

\* C2: fetch_all numbers its pages 1, 2, ...; once fetch_list gives an empty result for
\* page k it has returned, with exactly the records of pages 1..k-1, and neither page
\* k+1 nor any later page of that website is asked for.
C2_StopsAtEmptyPage ==
    \A i \in 1..Len(fetchLog) :
        LET site == fetchLog[i].site
            fs == SiteFetches(site)
        IN  /\ \A n \in 1..Len(fs) : fs[n].page = n
            /\ fetchLog[i].items = <<>> =>
                   /\ \A j \in (i + 1)..Len(fetchLog) : fetchLog[j].site # site
                   /\ Len(fs) = fetchLog[i].page
                   /\ Len(SiteEnds(site)) = 1
                   /\ SiteEnds(site)[1].outcome = "returned"
                   /\ SiteEnds(site)[1].items = Collected(SubSeq(fs, 1, Len(fs) - 1))

\* a website whose page 1 gave records and whose page 2 parsed to nothing, crawled with
\* a limit of three pages or more: page 3 was never asked for
C2_Witness ==
    /\ EffectiveMaxPages.int
    /\ EffectiveMaxPages.val >= 3
    /\ \E n \in 1..Len(siteLog) :
           LET fs == SiteFetches(siteLog[n].site)
           IN  /\ Len(fs) = 2
               /\ fs[1].items # <<>>
               /\ fs[2].outcome = "parsed"
               /\ fs[2].items = <<>>
               /\ siteLog[n].items = fs[1].items

\* C4: when http_client.get raises on page k of a website, no later page of that website
\* is fetched, crawl_website returns the records of its pages 1..k-1, crawl_all keeps
\* the records every crawl_website call returned, and it has called crawl_website for
\* every enabled website, running the driver of each one that has a parser, by the
\* time it returns.
C4_TransportErrorKeepsEarlierPages ==
    /\ \A i \in 1..Len(fetchLog) :
           fetchLog[i].outcome = "fetch_error" =>
               LET site == fetchLog[i].site
                   fs == SiteFetches(site)
               IN  /\ \A j \in (i + 1)..Len(fetchLog) : fetchLog[j].site # site
                   /\ Len(SiteEnds(site)) = 1
                   /\ SiteEnds(site)[1].items
                          = Collected(SubSeq(fs, 1, fetchLog[i].page - 1))
    /\ pc \in WithBody \ {"crawl_all"} =>
           allItems = Concat([n \in 1..Len(siteLog) |-> siteLog[n].items])
    /\ CrawlAllReturned =>
           /\ Len(siteLog) = Len(GetWebsites(config))
           /\ \A n \in 1..Len(siteLog) :
                  LET w == GetWebsites(config)[n]
                  IN  /\ siteLog[n].site = w.name
                      /\ (/\ GetParser(parsers, w.parser) # <<>>
                          /\ EffectiveMaxPages.int
                          /\ EffectiveMaxPages.val >= 1) => SiteFetches(w.name) # <<>>

\* crawl_all has returned; the first website gave records on page 1 and a transport
\* error on page 2 of at least three, and the second website was crawled after it and
\* gave records too
C4_Witness ==
    /\ pc = "crawled"
    /\ EffectiveMaxPages.int
    /\ EffectiveMaxPages.val >= 3
    /\ Len(siteLog) = 2
    /\ LET fs == SiteFetches(siteLog[1].site)
       IN  /\ Len(fs) = 2
           /\ fs[1].items # <<>>
           /\ fs[2].outcome = "fetch_error"
           /\ siteLog[1].items = fs[1].items
    /\ siteLog[2].items # <<>>
    /\ allItems = siteLog[1].items \o siteLog[2].items

\* C5: every crawl_website call comes back with a list, the empty one when the driver
\* raised or no parser was found; crawl_all calls it for the enabled websites in their
\* order, each once whatever the earlier calls gave, and keeps every record returned.
C5_EverySourceAttemptedOnce ==
    /\ Len(siteLog) <= Len(GetWebsites(config))
    /\ \A n \in 1..Len(siteLog) :
           /\ siteLog[n].site = GetWebsites(config)[n].name
           /\ siteLog[n].outcome \in {"exception", "no_parser"} => siteLog[n].items = <<>>
    /\ pc \in {"site", "pages"} => siteIdx = Len(siteLog) + 1
    /\ pc \in WithBody \ {"crawl_all"} =>
           /\ Len(allItems) = SumSeq([n \in 1..Len(siteLog) |-> Len(siteLog[n].items)])
           /\ \A n \in 1..Len(siteLog) : Range(siteLog[n].items) \subseteq Range(allItems)
    /\ CrawlAllReturned => Len(siteLog) = Len(GetWebsites(config))

\* crawl_all has returned after the driver of the first of two websites raised: the call
\* gave the empty list and the second website was attempted all the same
C5_Witness ==
    /\ pc = "crawled"
    /\ Len(siteLog) = 2
    /\ siteLog[1].outcome = "exception"
    /\ siteLog[1].items = <<>>
    /\ siteLog[2].site = GetWebsites(config)[2].name

\* C3: when parse_list raises on page k of a website, k below the page limit, the page
\* counts for no record and fetch_all goes on to ask for page k+1.
C3_ContinuesAfterFailedPage ==
    \A n \in 1..Len(siteLog) :
        LET fs == SiteFetches(siteLog[n].site)
        IN  \A i \in 1..Len(fs) :
                (fs[i].outcome = "parse_error" /\ fs[i].page < EffectiveMaxPages.val) =>
                    /\ fs[i].items = <<>>
                    /\ \E j \in 1..Len(fs) : fs[j].page = fs[i].page + 1

\* C8: whenever main() has returned from a run that built its HttpClient, the session
\* has been closed, and at no time has it been closed twice.
C8_SessionClosedOnce ==
    /\ closeCount <= 1
    /\ (pc = "done" /\ session # "none") => (closeCount = 1 /\ session = "closed")

\* C9: the parser the registry gives for an enabled website that registered is the one
\* built from that website's own config, and every record crawl_website returns for a
\* website carries that website's name as its source.
C9_RecordsCarrySourceName ==
    /\ \A n \in 1..Len(regLog) :
           regLog[n] = "registered" =>
               GetParser(parsers, GetWebsites(config)[n].parser) = <<GetWebsites(config)[n]>>
    /\ \A n \in 1..Len(siteLog) :
           \A k \in 1..Len(siteLog[n].items) : siteLog[n].items[k].source = siteLog[n].site

ParsedAt(r) == <<r.url[Len(r.url) - 1], r.url[Len(r.url)]>>

\* C11: all_items of crawl_all is the concatenation, in the order of the enabled
\* websites, of what crawl_website returned for each; what fetch_all returned is the
\* concatenation of its pages in increasing page order, and the records of one page
\* stand in the order parse_list gave them.
C11_ConcatenationInSourceOrder ==
    pc \in WithBody \ {"crawl_all"} =>
        /\ allItems = Concat([n \in 1..Len(siteLog) |-> siteLog[n].items])
        /\ \A n \in 1..Len(siteLog) :
               LET its == siteLog[n].items
                   fs == SiteFetches(siteLog[n].site)
               IN  /\ siteLog[n].site = GetWebsites(config)[n].name
                   /\ siteLog[n].outcome = "returned" => its = Collected(fs)
                   /\ \A i \in 1..Len(fs) : \A k \in 1..Len(fs[i].items) :
                          ParsedAt(fs[i].items[k])[1] = fs[i].page
                   /\ \A i, j \in 1..Len(its) :
                          i < j =>
                              \/ ParsedAt(its[i])[1] < ParsedAt(its[j])[1]
                              \/ /\ ParsedAt(its[i])[1] = ParsedAt(its[j])[1]
                                 /\ ParsedAt(its[i])[2] < ParsedAt(its[j])[2]

\* crawl_all has returned the records of two websites, each of which gave records on
\* two pages or more
C11_Witness ==
    /\ pc = "crawled"
    /\ Len(siteLog) = 2
    /\ \A n \in 1..2 :
           LET fs == SiteFetches(siteLog[n].site)
           IN  Len(fs) >= 2 /\ Len(fs[1].items) >= 2 /\ Len(fs[2].items) >= 2
    /\ Len(allItems) = Len(siteLog[1].items) + Len(siteLog[2].items)

----------------------------------------------------------------------------
(* The properties of the stages of DataFilter.                             *)

\* two records agree on title, publish date and purchaser
SameKey(r1, r2) ==
    /\ r1.title = r2.title
    /\ r1.publish_date = r2.publish_date
    /\ r1.purchaser = r2.purchaser

\* C12: of two valid candidates with the same title, publish date and purchaser that one
\* DataFilter processes with no reset() between them, in one call or in two, the one
\* processed second is not accepted, whatever their urls, sources and other fields;
\* in the last call it is counted as a duplicate after the duplicate check.
C12_DedupIgnoresUrlAndSource ==
    /\ \A i \in 1..Len(callLog) : \A j \in i..Len(callLog) :
           callLog[i].epoch = callLog[j].epoch =>
               \A k \in 1..Len(callLog[i].input) : \A m \in 1..Len(callLog[j].input) :
                   (/\ i < j \/ k < m
                    /\ IsValid(callLog[i].input[k])
                    /\ IsValid(callLog[j].input[m])
                    /\ SameKey(callLog[i].input[k], callLog[j].input[m]))
                       => m \notin Accepted(callLog[j])
    /\ callLog # <<>> =>
           LET inp == callLog[Len(callLog)].input
           IN  \A k, m \in 1..Len(inp) :
                   (k < m /\ IsValid(inp[k]) /\ IsValid(inp[m]) /\ SameKey(inp[k], inp[m]))
                       => calls[m] = <<"is_valid", "_check_duplicate">>

\* the first call accepted a record and rejected a later one of the same list that has
\* the same title, date and purchaser but another url and another source
C12_Witness ==
    /\ Len(callLog) = 1
    /\ \E k, m \in 1..Len(callLog[1].input) :
           /\ k < m
           /\ SameKey(callLog[1].input[k], callLog[1].input[m])
           /\ callLog[1].input[k].url # callLog[1].input[m].url
           /\ callLog[1].input[k].source # callLog[1].input[m].source
           /\ k \in Accepted(callLog[1])
           /\ m \notin Accepted(callLog[1])
           /\ stats["duplicate"] = 1

----------------------------------------------------------------------------
(* The properties of BidInfo and of the hash helper.                       *)

\* the calls of the trace with the name op
CallsOf(op) == {i \in 1..Len(trace) : trace[i].op = op}

\* C13: two calculate_hash() calls on records that agree on title, publish date and
\* purchaser return the same value, and helpers.calculate_hash returns equal values for
\* equal texts and different values for different texts.
C13_FingerprintFunctionOfKey ==
    /\ \A i, j \in CallsOf("calculate_hash") :
           SameKey(trace[i].on, trace[j].on) => trace[i].ret = trace[j].ret
    /\ \A i, j \in CallsOf("helpers.calculate_hash") :
           (trace[i].arg = trace[j].arg) <=> (trace[i].ret = trace[j].ret)

\* C19: is_valid() returns true exactly when title, url and source are non-empty and the
\* title has between 5 and 500 characters, both limits included.
C19_ValidityRule ==
    \A i \in CallsOf("is_valid") :
        LET r == trace[i].on
        IN  trace[i].ret <=> /\ r.title # <<>>
                             /\ r.url # <<>>
                             /\ r.source # <<>>
                             /\ 5 <= Len(r.title)
                             /\ Len(r.title) <= 500

\* is_valid() has answered true on a record whose title has exactly 500 characters
C19_Witness ==
    \E i \in CallsOf("is_valid") :
        /\ Len(trace[i].on.title) = 500
        /\ trace[i].on.url # <<>>
        /\ trace[i].on.source # <<>>
        /\ trace[i].ret

----------------------------------------------------------------------------
(* The properties of the keyword, date, amount and industry stages.        *)

\* two characters are the same letter, whatever their case
SameLetter(a, b) == a = b \/ {a, b} = {"a", "A"} \/ {a, b} = {"b", "B"}

\* k occurs in t when case is ignored
CiSubstr(k, t) ==
    \E i \in 0..(Len(t) - Len(k)) : \A j \in 1..Len(k) : SameLetter(k[j], t[i + j])

\* the candidates of the last filter() call that reached stage number s
Reached(s) == {k \in 1..Len(calls) : Len(calls[k]) >= s}

\* the candidates of the last filter() call that were rejected by stage number s
RejectedAt(s) == {k \in 1..Len(calls) : Len(calls[k]) = s}

\* C14: with keywords configured, a candidate that reaches the keyword stage passes it
\* exactly when some keyword occurs in its title, case ignored, and then its
\* matched_keywords is the list of the keywords that occur, in the order of the
\* keyword list; otherwise it is counted as no_keywords.
C14_KeywordStage ==
    (callLog # <<>> /\ GetKeywords(config) # <<>>) =>
        /\ \A k \in Reached(3) :
               LET occurring == SelectSeq(GetKeywords(config),
                                          LAMBDA w : CiSubstr(w, items[k].title))
               IN  /\ k \in Reached(4) <=> occurring # <<>>
                   /\ k \in Reached(4) => items[k].matched_keywords = occurring
        /\ stats["no_keywords"] = Cardinality(RejectedAt(3))

\* the last call accepted a candidate whose title holds both keywords, one of them in
\* the other case, and rejected another at the keyword stage
C14_Witness ==
    /\ callLog # <<>>
    /\ GetKeywords(config) = <<KwA, KwB>>
    /\ \E n \in 1..Len(result) :
           /\ items[result[n]].matched_keywords = <<KwA, KwB>>
           /\ ~IsSubstr(KwA, items[result[n]].title)
    /\ RejectedAt(3) # {}

\* the candidate list the last filter() call was given
LastInput == callLog[Len(callLog)].input

\* C15: with no keywords configured, every candidate that reaches the keyword stage of
\* filter() goes on to the date stage with the matched_keywords it came with and none
\* is counted as no_keywords, although match_keywords of the same record with the empty
\* list answers no match.
C15_EmptyKeywordsPassAll ==
    (callLog # <<>> /\ GetKeywords(config) = <<>>) =>
        /\ \A k \in Reached(3) :
               /\ k \in Reached(4)
               /\ items[k].matched_keywords = LastInput[k].matched_keywords
               /\ ~MatchKeywords(LastInput[k], <<>>).ok
        /\ stats["no_keywords"] = 0

\* the last call ran without keywords over a candidate that came with matched_keywords
\* set and one that came without, and both reached the keyword stage
C15_Witness ==
    /\ callLog # <<>>
    /\ GetKeywords(config) = <<>>
    /\ \E k, m \in Reached(3) : /\ LastInput[k].matched_keywords # <<>>
                                /\ LastInput[m].matched_keywords = <<>>

\* C16: a candidate that reaches the date stage passes it exactly when the window is
\* not positive, or it has no publish date, or its publish date is not earlier than
\* now minus the window; the others are counted as out_of_date.
C16_DateWindow ==
    callLog # <<>> =>
        /\ \A k \in Reached(4) :
               k \in Reached(5) <=>
                   \/ config.filters.date_range <= 0
                   \/ items[k].publish_date = <<>>
                   \/ items[k].publish_date[1] >= now - config.filters.date_range * TicksPerDay
        /\ stats["out_of_date"] = Cardinality(RejectedAt(4))

\* with a window of one day, the last call passed a candidate published exactly one day
\* ago and rejected one published a tick earlier
C16_Witness ==
    /\ callLog # <<>>
    /\ config.filters.date_range = 1
    /\ \E k \in Reached(5) : items[k].publish_date = <<now - TicksPerDay>>
    /\ \E k \in RejectedAt(4) : items[k].publish_date = <<now - TicksPerDay - 1>>

\* whether budget b lies inside the configured bounds, a bound of 0 being no bound
InsideBounds(b) ==
    /\ ~(config.filters.min_amount > 0 /\ b < config.filters.min_amount)
    /\ ~(config.filters.max_amount > 0 /\ b > config.filters.max_amount)

\* C17: a candidate that reaches the amount stage passes it exactly when it has no
\* budget or its budget, 0 included, lies inside the configured bounds; the others are
\* counted as out_of_amount.
C17_AmountWindow ==
    callLog # <<>> =>
        /\ \A k \in Reached(5) :
               k \in Reached(6) <=>
                   (items[k].budget = <<>> \/ InsideBounds(items[k].budget[1]))
        /\ stats["out_of_amount"] = Cardinality(RejectedAt(5))

\* the configured industries, in order, one of whose keywords occurs in purchaser p
IndustriesOf(p) ==
    SelectSeq(GetIndustries(config),
              LAMBDA ind : \E i \in 1..Len(ind.keywords) : CiSubstr(ind.keywords[i], p))

\* C18: every candidate that reaches the classification is accepted, and its industry
\* is the name of the first configured industry one of whose keywords occurs in its
\* purchaser, case ignored, or is left unset when there is none; two candidates with
\* the same purchaser get the same industry wherever they stand in the list.
C18_IndustryClassification ==
    callLog # <<>> =>
        /\ Reached(6) = Range(result)
        /\ \A k \in Reached(6) :
               items[k].industry = IF IndustriesOf(items[k].purchaser) = <<>> THEN <<>>
                                   ELSE <<IndustriesOf(items[k].purchaser)[1].name>>
        /\ \A k, m \in Reached(6) :
               items[k].purchaser = items[m].purchaser => items[k].industry = items[m].industry

\* the last call accepted a candidate whose purchaser matches two industries and was
\* stamped with the first, and one whose purchaser matches none
C18_Witness ==
    /\ callLog # <<>>
    /\ \E k, m \in Reached(6) :
           /\ Len(IndustriesOf(items[k].purchaser)) = 2
           /\ items[k].industry = <<"ind1">>
           /\ k > m
           /\ LastInput[m].industry = <<>>
           /\ items[m].industry = <<>>

----------------------------------------------------------------------------
(* The properties of _seen_hashes.                                         *)

\* call number j of filter() is the first one after a reset()
FirstAfterReset(j) == j > 1 /\ callLog[j - 1].epoch < callLog[j].epoch

\* what one step may do to the _seen_hashes of the two instances
SeenFrame ==
    /\ callLog' # callLog => (seen \subseteq seen' /\ seenOther' = seenOther)
    /\ otherLog' # otherLog => (seenOther \subseteq seenOther' /\ seen' = seen)
    /\ statsOut' # statsOut => (seen' = seen /\ seenOther' = seenOther)
    /\ ~(seen \subseteq seen') => epoch' = epoch + 1
    /\ epoch' # epoch =>
           /\ seen' = {}
           /\ UNCHANGED <<config, now, items, stats, result, calls, callLog, statsOut,
                          seenOther, otherLog>>

\* C20: filter() only adds to the _seen_hashes of its own instance and leaves the set of
\* the other instance alone, get_statistics() changes neither, the set loses elements
\* only in reset(), which empties it and changes nothing else; the first filter() after
\* a reset() accepts again every candidate an earlier call accepted, and the first
\* filter() of an instance starts from an empty set whatever the other instance saw.
C20_DedupIndexFrame ==
    /\ [][SeenFrame]_vars
    /\ [](/\ \A i \in 1..Len(callLog) : \A j \in 1..Len(callLog) :
               (i < j /\ FirstAfterReset(j)) =>
                   Accepted(callLog[i]) \subseteq Accepted(callLog[j])
          /\ callLog # <<>> => callLog[1].before = {}
          /\ otherLog # <<>> => otherLog[1].before = {})

\* the first instance accepted a candidate, was reset and accepted it again, and the
\* second instance, called after the first had seen the list, accepted it as well
C20_Witness ==
    /\ Len(callLog) = 2
    /\ FirstAfterReset(2)
    /\ Accepted(callLog[1]) # {}
    /\ Accepted(callLog[2]) = Accepted(callLog[1])
    /\ otherLog # <<>>
    /\ otherLog[1].before = {}
    /\ Accepted(otherLog[1]) = Accepted(callLog[1])
    /\ seenOther # {}
    /\ seen = seenOther
    /\ statsOut # <<>>

----------------------------------------------------------------------------
(* The properties of get_statistics.                                       *)

\* the sum of the values of the function f over the keys in S
RECURSIVE SumOver(_, _)
SumOver(f, S) ==
    IF S = {} THEN 0
    ELSE LET x == CHOOSE y \in S : TRUE IN f[x] + SumOver(f, S \ {x})

\* the records the last filter() call returned
Returned == [k \in 1..Len(result) |-> items[result[k]]]

\* C21: a get_statistics() step changes neither _seen_hashes nor a record, and what it
\* returns is fixed by the records it was given: total is their number, by_source and
\* by_industry hold for each key the number of records with that key (a record without
\* source or industry under the default key), so that each sums to total.
C21_StatisticsReadOnly ==
    [][statsOut' # statsOut =>
          LET out == statsOut'[1]
          IN  /\ UNCHANGED <<seen, seenOther, items, result, stats, config>>
              /\ out.total = Len(Returned)
              /\ \A s \in DOMAIN out.by_source :
                     out.by_source[s] = Cardinality({k \in 1..Len(Returned) :
                                                       Returned[k].source = s})
              /\ \A n \in DOMAIN out.by_industry :
                     out.by_industry[n] = Cardinality({k \in 1..Len(Returned) :
                         Returned[k].industry = IF n = "other" THEN <<>> ELSE <<n>>})
              /\ SumOver(out.by_source, DOMAIN out.by_source) = out.total
              /\ SumOver(out.by_industry, DOMAIN out.by_industry) = out.total]_vars

\* get_statistics() has returned the counts of two records, one classified and one
\* not, at a moment when _seen_hashes was not empty
C21_Witness ==
    /\ statsOut # <<>>
    /\ statsOut[1].total = 2
    /\ DOMAIN statsOut[1].by_industry = {"ind1", "other"}
    /\ Len(result) = 2
    /\ seen # {}

----------------------------------------------------------------------------
(* The properties of HttpClient.                                           *)

\* C22: with a delay D > 0, a request of an HttpClient is handed to the session no
\* earlier than D after the moment the request before it returned or raised.
C22_DelayFromEndOfPrevious ==
    \A i \in 1..(Len(reqLog) - 1) :
        (delay > 0 /\ reqLog[i].ended # <<>>) =>
            reqLog[i + 1].sent >= reqLog[i].ended[1] + delay

\* a failure the retry strategy is meant for: one of the listed statuses, a connection
\* error or a timeout
Transient(resp) ==
    \/ resp.kind \in {"conn", "timeout"}
    \/ resp.kind = "status" /\ resp.status \in {429, 500, 502, 503, 504}

\* what the end of one attempt of caller w leads to, `made` attempts having ended before
AttemptRule(w) ==
    hloc'[w].tries = hloc[w].tries + 1 =>
        LET resp == hloc'[w].last
            made == hloc[w].tries
            ends(outcome) == /\ hpc'[w] = "idle"
                             /\ reqLog'[hloc[w].idx].ended = <<clock>>
                             /\ reqLog'[hloc[w].idx].outcome = outcome
        IN  /\ made + 1 <= retryTimes + 1
            /\ (Transient(resp) /\ made < retryTimes) => hpc'[w] = "inflight"
            /\ (Transient(resp) /\ made = retryTimes) => ends("error")
            /\ (resp.kind = "status" /\ resp.status = 200) => ends("body")
            /\ reqLog'[hloc[w].idx].outcome = "body" => resp.status = 200

ClientError(resp) ==
    resp.kind = "status" /\ resp.status >= 400 /\ resp.status < 500 /\ resp.status # 429

\* C24: an attempt that ends with a 4xx status other than 429 is the last attempt of its
\* call, which raises and returns no body; when it is the first attempt, the call has
\* made exactly one.
C24_ClientErrorNotRetried ==
    [][\A w \in Workers :
          (hloc'[w].tries = hloc[w].tries + 1 /\ ClientError(hloc'[w].last)) =>
              /\ hpc'[w] = "idle"
              /\ reqLog'[hloc[w].idx].outcome = "error"
              /\ reqLog'[hloc[w].idx].ended = <<clock>>]_vars

----------------------------------------------------------------------------
(* The properties of main().                                               *)

\* main() has returned, uninterrupted, from a run whose crawl_all went through every
\* enabled website and got no record from any
EmptyRunEnded ==
    /\ pc = "done"
    /\ exitCode # <<130>>
    /\ WebsitesAreMappings(config)
    /\ siteLog # <<>>
    /\ Len(siteLog) = Len(GetWebsites(config))
    /\ \A n \in 1..Len(siteLog) : siteLog[n].items = <<>>

\* C25: a run in which no website gave a record returns 0 after it has called filter()
\* and get_statistics(), whose counts of zero records it reports.
C25_EmptyRunStillReports ==
    EmptyRunEnded =>
        /\ exitCode = <<0>>
        /\ callLog # <<>>
        /\ statsOut # <<>>

----------------------------------------------------------------------------
(* The properties of parse_amount and parse_date.                          *)

\* the factor num / den the claim gives for what follows the number
FactorOf(suffix) ==
    IF suffix = <<>> THEN [num |-> 1, den |-> 1]
    ELSE IF suffix[1] = "Yi" THEN [num |-> 10000, den |-> 1]
    ELSE IF suffix[1] = "Wan" THEN [num |-> 1, den |-> 1]
    ELSE IF suffix[1] = "Qian" THEN [num |-> 1, den |-> 10]
    ELSE [num |-> 1, den |-> 10000]

\* h hundredths is num / den hundredths rounded
IsRounded(h, num, den) ==
    LET diff == den * h - num
    IN  2 * (IF diff < 0 THEN 0 - diff ELSE diff) <= den

\* C26: parse_amount gives, for a number followed by 亿, 万, 千, 元 or nothing, the number
\* times 10000, 1, 1/10, 1/10000 or 1, rounded to hundredths, and None for a text
\* without a number ("1.5亿元" gives 15000.0, "100万元" 100.0, "50000元" 5.0); with
\* min_amount = 10 the amount stage passes the budget 15000.0 and rejects 5.0.
C26_ParseAmountUnits ==
    /\ \A i \in CallsOf("parse_amount") :
           /\ \A n \in AmountNumbers : \A u \in UnitSuffixes :
                  trace[i].arg = n.text \o u =>
                      /\ trace[i].ret # <<>>
                      /\ IsRounded(trace[i].ret[1], n.cents * FactorOf(u).num, FactorOf(u).den)
           /\ trace[i].arg \in NumberFreeTexts => trace[i].ret = <<>>
           /\ trace[i].arg = <<"1", ".", "5", "Yi", "Yuan">> => trace[i].ret = <<1500000>>
           /\ trace[i].arg = <<"1", "0", "0", "Wan", "Yuan">> => trace[i].ret = <<10000>>
           /\ trace[i].arg = <<"5", "0", "0", "0", "0", "Yuan">> => trace[i].ret = <<500>>
    /\ \A i \in CallsOf("_check_amount_range") :
           /\ trace[i].arg = <<"1", ".", "5", "Yi", "Yuan">> => trace[i].ret
           /\ trace[i].arg = <<"5", "0", "0", "0", "0", "Yuan">> => ~trace[i].ret

\* parse_amount was called on "50000元" and the amount stage on the record it gives
C26_Witness ==
    /\ Len(trace) = 2
    /\ trace[1].op = "parse_amount"
    /\ trace[1].arg = <<"5", "0", "0", "0", "0", "Yuan">>
    /\ trace[1].ret = <<500>>
    /\ trace[2].op = "_check_amount_range"
    /\ trace[2].arg = trace[1].arg
    /\ trace[2].ret = FALSE

\* the days of the months of a year
MonthLengths(year) ==
    <<31, IF year \in {2024} THEN 29 ELSE 28, 31, 30, 31, 30, 31, 31, 30, 31, 30, 31>>

\* year, month, day name a day of the calendar (of the years 2023 and 2024)
RealDate(p) ==
    /\ p.month \in 1..12
    /\ p.day >= 1
    /\ p.day <= MonthLengths(p.year)[p.month]

\* C27: parse_date gives the date of a text that holds one written as YYYY-MM-DD,
\* YYYY/MM/DD or YYYY年MM月DD日, and None for the empty text, for a text without a date
\* pattern and for a pattern whose numbers are no day of the calendar.
C27_ParseDateFormats ==
    \A i \in CallsOf("parse_date") :
        /\ \A p \in DateParts : \A f \in DateFormats :
               (trace[i].arg = WrittenDate(p, f)
                    \/ trace[i].arg = <<" ", "x">> \o WrittenDate(p, f) \o <<"x", " ">>) =>
                   trace[i].ret = IF RealDate(p)
                                  THEN <<[year |-> p.year, month |-> p.month, day |-> p.day]>>
                                  ELSE <<>>
        /\ trace[i].arg \in DateFreeTexts => trace[i].ret = <<>>

\* parse_date was called on a date inside a longer text and on 2024-04-31
C27_Witness ==
    /\ Len(trace) = 2
    /\ trace[1].op = "parse_date"
    /\ trace[1].arg = <<" ", "x", "2", "0", "2", "4", "-", "2", "-", "2", "9", "x", " ">>
    /\ trace[1].ret = <<[year |-> 2024, month |-> 2, day |-> 29]>>
    /\ trace[2].op = "parse_date"
    /\ trace[2].arg = <<"2", "0", "2", "4", "-", "0", "4", "-", "3", "1">>
    /\ trace[2].ret = <<>>

----------------------------------------------------------------------------
(* The key of the duplicate check.                                         *)

\* the candidates (call, position) one DataFilter processed before position m of its
\* last filter() call, with no reset() in between
EarlierThanLast(m) ==
    {c \in {<<i, k>> : i \in 1..Len(callLog), k \in 1..MaxItems} :
        /\ c[2] <= Len(callLog[c[1]].input)
        /\ callLog[c[1]].epoch = callLog[Len(callLog)].epoch
        /\ c[1] < Len(callLog) \/ c[2] < m}

\* C28: two valid candidates that differ in title, in publish day or in purchaser have
\* different unique_str, and a candidate of the last filter() call is rejected by the
\* duplicate check only if a valid candidate processed earlier by the same DataFilter,
\* with no reset() in between, has the same title, publish day and purchaser.
C28_DuplicateOnlyOnSameTriple ==
    callLog # <<>> =>
        /\ \A k, m \in 1..Len(LastInput) :
               (IsValid(LastInput[k]) /\ IsValid(LastInput[m])
                    /\ ~SameKey(LastInput[k], LastInput[m]))
                   => UniqueStr(LastInput[k]) # UniqueStr(LastInput[m])
        /\ \A m \in RejectedAt(2) :
               \E c \in EarlierThanLast(m) :
                   /\ IsValid(callLog[c[1]].input[c[2]])
                   /\ SameKey(callLog[c[1]].input[c[2]], LastInput[m])

----------------------------------------------------------------------------
(* The duplicate check under two threads.                                  *)

\* the candidates (thread, position) the filter() calls of the threads have accepted
AcceptedByThreads ==
    {a \in Threads \X (1..MaxItems) :
        \E k \in 1..Len(tloc[a[1]].result) : tloc[a[1]].result[k] = a[2]}

\* C29: with two threads calling filter() on one DataFilter, no thread is about to add
\* a hash that is already in _seen_hashes, and no two accepted candidates, of one
\* thread or of both, have the same content_hash.
C29_TestAndInsertAtomic ==
    /\ \A t \in Threads : tpc[t] = "add" => tloc[t].hash[1] \notin seen
    /\ \A a, b \in AcceptedByThreads :
           a # b => tloc[a[1]].items[a[2]].content_hash
                        # tloc[b[1]].items[b[2]].content_hash

----------------------------------------------------------------------------
(* The delay gate of the one HttpClient of the engine.                     *)

\* C30: any two requests sent through the one HttpClient, by one caller or by two
\* callers that run concurrently, start at least `delay` apart.
C30_GlobalThrottle ==
    \A i, j \in 1..Len(reqLog) :
        (i < j /\ delay > 0) => reqLog[j].sent >= reqLog[i].sent + delay

----------------------------------------------------------------------------
(* The properties of fetch_list and fetch_all.                             *)

\* C31: the fetch_list calls of one fetch_all are for the pages 1, 2, 3, ... with no gap
\* and no repetition, never for a page above max_pages; with max_pages below 1 no fetch
\* is made and every website gives the empty list; and fetch_all always leaves its loop.
C31_PagesInOrderAndBounded ==
    /\ [](\A i \in 1..Len(fetchLog) :
              /\ \/ fetchLog[i].page = 1
                 \/ /\ i > 1
                    /\ fetchLog[i].page = fetchLog[i - 1].page + 1
                    /\ fetchLog[i].site = fetchLog[i - 1].site
              /\ fetchLog[i].page <= EffectiveMaxPages.val)
    /\ []((EffectiveMaxPages.int /\ EffectiveMaxPages.val < 1) =>
              /\ fetchLog = <<>>
              /\ \A k \in 1..Len(siteLog) : siteLog[k].items = <<>>)
    /\ (pc = "pages") ~> (pc # "pages")

\* a fetch_all call fetched every page up to max_pages >= 2 and returned
C31_Witness ==
    /\ EffectiveMaxPages.val >= 2
    /\ fetchLog # <<>>
    /\ fetchLog[Len(fetchLog)].page = EffectiveMaxPages.val
    /\ siteLog # <<>>
    /\ siteLog[Len(siteLog)].outcome = "returned"
    /\ pc = "site"

\* the positions of the candidates of a parsed page that have a title and a url and that
\* BidInfo(**item) accepts, in page order
Usable(kinds) ==
    SelectSeq([i \in 1..Len(kinds) |-> i], LAMBDA i : kinds[i] \in {"ok", "ownsource"})

\* C32: the list fetch_list returns for a parsed page holds one Record per candidate
\* that has a title and a url and whose construction succeeds, in page order and for
\* these candidates only, and every Record has the source name of the parser's website,
\* also when the candidate came with a source of its own.
C32_RecordsOfAPage ==
    \A i \in 1..Len(fetchLog) :
        LET e == fetchLog[i]
            good == Usable(e.parsed)
        IN  e.outcome = "parsed" =>
                /\ Len(e.items) = Len(good)
                /\ \A k \in 1..Len(e.items) :
                       LET r == e.items[k]
                       IN  /\ r.url[Len(r.url)] = good[k]
                           /\ r.url[Len(r.url) - 1] = e.page
                           /\ r.title # <<>>
                           /\ r.source = e.source

\* a page with a candidate that BidInfo(**item) refuses between two usable ones, the
\* second with a source of its own, gave two Records
C32_Witness ==
    \E i \in 1..Len(fetchLog) :
        /\ fetchLog[i].parsed = <<"ok", "extra", "ownsource">>
        /\ Len(fetchLog[i].items) = 2
        /\ fetchLog[i].items[2].source = fetchLog[i].source

----------------------------------------------------------------------------
(* The counters of filter().                                               *)

\* the sum of the rejection counters and of the accepted count of a stats dict
Counted(st) ==
    st["invalid"] + st["duplicate"] + st["no_keywords"] + st["out_of_date"]
        + st["out_of_amount"] + st["passed"]

Underived(r) == r.matched_keywords = <<>> /\ r.industry = <<>> /\ r.content_hash = <<>>

\* C34: every record fetch_list, crawl_website (with fetch_all) and crawl_all return has
\* empty matched_keywords, no industry and no content_hash; after filter() has run on the
\* crawled records, a record has a content_hash exactly when it reached the duplicate
\* check, matched_keywords exactly when it passed the keyword stage, and an industry
\* only when it reached the classification.
C34_DerivedFieldsOnlyByFilter ==
    /\ \A i \in 1..Len(fetchLog) : \A k \in 1..Len(fetchLog[i].items) :
           Underived(fetchLog[i].items[k])
    /\ \A i \in 1..Len(siteLog) : \A k \in 1..Len(siteLog[i].items) :
           Underived(siteLog[i].items[k])
    /\ pc \in {"site", "pages", "crawled", "filter"} =>
           \A k \in 1..Len(allItems) : Underived(allItems[k])
    /\ callLog # <<>> =>
           \A k \in 1..Len(items) :
               /\ items[k].content_hash # <<>> <=> Len(calls[k]) >= 2
               /\ items[k].matched_keywords # <<>> <=> Len(calls[k]) >= 4
               /\ items[k].industry # <<>> => Len(calls[k]) = 6

\* filter() ran on crawled records: one was classified, one was rejected as a duplicate
\* and has a content_hash and nothing else
C34_Witness ==
    /\ callLog # <<>>
    /\ \E k, m \in 1..Len(items) :
           /\ items[k].industry # <<>>
           /\ items[k].matched_keywords # <<>>
           /\ Len(calls[m]) = 2
           /\ items[m].content_hash # <<>>
           /\ items[m].matched_keywords = <<>>

----------------------------------------------------------------------------
(* The encoding fallback of HttpClient.get.                                *)

\* the encodings of the list, in order, that decode the body without error
Decoding(body) == SelectSeq(EncodingsTried, LAMBDA e : body.strict[e] # <<>>)

\* C35: for a response reported as ISO-8859-1, get() returns the body decoded with the
\* first of utf-8, gbk, gb2312 that decodes it without error.
C35_FirstEncodingThatDecodes ==
    \A i \in 1..Len(trace) :
        LET resp == trace[i].arg
        IN  (trace[i].op = "get" /\ resp.encoding = "ISO-8859-1"
                 /\ Decoding(resp.body) # <<>>)
                => trace[i].ret = resp.body.strict[Decoding(resp.body)[1]][1]

----------------------------------------------------------------------------
(* What the duplicate check leaves behind.                                 *)

\* C36: after every filter() call the fingerprint of each valid candidate of its input
\* is in _seen_hashes, accepted or not, and stays there for the later calls up to the
\* next reset(); in the last call, a valid candidate that follows one with the same
\* fingerprint that a later stage (keywords, date, amount) rejected is itself rejected
\* by the duplicate check.
C36_InsertedBeforeLaterStages ==
    /\ \A i \in 1..Len(callLog) :
           /\ \A k \in 1..Len(callLog[i].input) :
                  IsValid(callLog[i].input[k]) =>
                      Fingerprint(callLog[i].input[k]) \in callLog[i].after
           /\ \A j \in (i + 1)..Len(callLog) :
                  callLog[i].epoch = callLog[j].epoch =>
                      callLog[i].after \subseteq callLog[j].before
    /\ callLog # <<>> =>
           \A k, m \in 1..Len(LastInput) :
               (/\ k < m
                /\ Len(calls[k]) \in 3..5
                /\ IsValid(LastInput[m])
                /\ Fingerprint(LastInput[m]) = Fingerprint(LastInput[k]))
                   => /\ calls[m] = <<"is_valid", "_check_duplicate">>
                      /\ \A n \in 1..Len(result) : result[n] # m

\* the first call met a fingerprint for the first time on a candidate that the amount
\* stage rejected, then rejected the next candidate with that fingerprint as a
\* duplicate, and returned nothing: the fingerprint is in _seen_hashes
C36_Witness ==
    /\ Len(callLog) = 1
    /\ Len(LastInput) = 2
    /\ Len(calls[1]) = 5
    /\ calls[2] = <<"is_valid", "_check_duplicate">>
    /\ result = <<>>
    /\ Fingerprint(LastInput[1]) \in seen
    /\ callLog[1].before = {}

----------------------------------------------------------------------------
(* crawl_all without keywords or without websites.                         *)

\* C37: when no keyword is configured or no website is enabled, crawl_all calls
\* crawl_website for no website, no fetch_list call is made, and it returns the empty
\* list.
C37_NothingToCrawl ==
    (GetKeywords(config) = <<>> \/ GetWebsites(config) = <<>>) =>
        /\ siteLog = <<>>
        /\ fetchLog = <<>>
        /\ pc \notin {"site", "pages"}
        /\ pc \in {"crawled", "filter", "stats", "report"} => allItems = <<>>

\* crawl_all has returned in a run with enabled websites whose parsers registered and
\* with no keyword
C37_Witness ==
    /\ pc = "crawled"
    /\ GetKeywords(config) = <<>>
    /\ GetWebsites(config) # <<>>
    /\ \E key \in ParserClasses : parsers[key] # <<>>

----------------------------------------------------------------------------
(* The end of the pagination.                                              *)

\* a fetch_list call that got an empty body, or a parsed page with candidates of which
\* none becomes a Record
YieldsNothing(e) ==
    \/ e.outcome = "empty_body"
    \/ e.outcome = "parsed" /\ e.parsed # <<>> /\ Usable(e.parsed) = <<>>

\* C38: a fetch_list call that yields no Record, because the body was empty or because
\* no candidate of a non-empty parsed page became a Record, is the last one of its
\* fetch_all call: the next fetch_list call, if any, is for page 1 of another website.
C38_StopsOnPageWithoutRecords ==
    \A i \in 1..Len(fetchLog) :
        YieldsNothing(fetchLog[i]) =>
            /\ fetchLog[i].items = <<>>
            /\ i < Len(fetchLog) =>
                   /\ fetchLog[i + 1].page = 1
                   /\ fetchLog[i + 1].site # fetchLog[i].site
            /\ (i = Len(fetchLog) /\ pc = "pages") => page = 1
            /\ \E n \in 1..Len(siteLog) : siteLog[n].site = fetchLog[i].site

\* with a limit of three pages, page 2 of a website parsed to three candidates of which
\* none became a Record, and crawl_website returned the records of page 1
C38_Witness ==
    /\ EffectiveMaxPages.val >= 3
    /\ \E i \in 2..Len(fetchLog) :
           /\ fetchLog[i].page = 2
           /\ fetchLog[i].parsed = <<"nourl", "notitle", "extra">>
           /\ fetchLog[i - 1].items # <<>>
           /\ \E n \in 1..Len(siteLog) :
                  /\ siteLog[n].site = fetchLog[i].site
                  /\ siteLog[n].items = fetchLog[i - 1].items

----------------------------------------------------------------------------
(* Exceptions of fetch_list and fetch_all.                                 *)

\* C39: every fetch_list call returns a list, the empty one when get_list_url, the
\* transport or parse_list failed, and no fetch_all call raises: crawl_website never
\* ends in its `except Exception`.
C39_FetchNeverRaises ==
    /\ \A i \in 1..Len(fetchLog) :
           fetchLog[i].outcome \in {"url_error", "fetch_error", "parse_error"} =>
               fetchLog[i].items = <<>>
    /\ \A n \in 1..Len(siteLog) : siteLog[n].outcome # "exception"

----------------------------------------------------------------------------
(* What filter() returns.                                                  *)

\* whether record r is the record q with nothing but its derived fields written
SameObject(r, q) ==
    [r EXCEPT !.content_hash = <<>>, !.matched_keywords = <<>>, !.industry = <<>>]
        = [q EXCEPT !.content_hash = <<>>, !.matched_keywords = <<>>, !.industry = <<>>]

\* C40: every filter() call returns positions of its input in strictly increasing order,
\* the records there being those of the input; each returned record is valid, had a
\* fingerprint that was neither in _seen_hashes at entry nor that of an earlier valid
\* candidate, matches a keyword when keywords are configured, lies in the date window
\* and has no budget or a budget inside the configured bounds; a call on the empty list
\* returns the empty list and leaves _seen_hashes as it was.
C40_ResultIsSubsequence ==
    \A i \in 1..Len(callLog) :
        LET c == callLog[i]
        IN  /\ \A n \in 1..Len(c.result) :
                   /\ c.result[n] \in 1..Len(c.input)
                   /\ n > 1 => c.result[n - 1] < c.result[n]
                   /\ SameObject(c.records[c.result[n]], c.input[c.result[n]])
                   /\ \A s \in 1..4 : ~FailsStage(c.input, c.before, c.result[n], s)
                   /\ \/ c.input[c.result[n]].budget = <<>>
                      \/ InsideBounds(c.input[c.result[n]].budget[1])
            /\ c.input = <<>> => (c.result = <<>> /\ c.after = c.before)

====
